---- MODULE Spec2Model ----
(***************************************************************************)
(* State-machine model of archivebox/main.py: the init, info, add, remove, *)
(* update and list commands over the main index and its representations,   *)
(* the link folders and the archive loop.                                  *)
(* Timestamps are modelled as naturals (the code compares them through     *)
(* float()), URLs as sequences of tokens (host, port, path, fragment), an  *)
(* Optional value as a sequence of length 0 (None) or 1.                   *)
(***************************************************************************)
EXTENDS Integers, Sequences, FiniteSets, TLC

VARIABLES
    index,      \* the main index on disk: sequence of Link records
    sql_index,  \* the relational index: sequence of Link records
    html_index, \* the HTML index: sequence of <<url, timestamp>> pairs
    cron,       \* the crontab of the user: on disk, and as schedule holds it
    staged,     \* a write in progress: its temporary files (representation ->
                \* content) and the representations already renamed into place
    outdir,     \* the data directory: what init makes in it, and foreign entries
    ncmds,      \* number of commands run to their end before the current one
    report,     \* the counts info printed: a function from what was counted
    index0,     \* the main index as the command found it
    folders,    \* archive/<name>: function from existing folder names to folder records
    sources,    \* number of import sources saved under sources/
    cmd,        \* the command being run: "none", "add", "remove", "update"
    pc,         \* position inside the command
    args,       \* the arguments the command was called with
    all_links,  \* local `all_links` of add and update once the batch is chosen
    new_links,  \* local `new_links` of add
    links,      \* local `links`: the batch selected by the command
    probed,     \* timestamps list_links called link_matches_filter with, in order
    fixed,      \* folders init renamed to the timestamp of their metadata
    cant_fix,   \* folders init could not rename: the destination exists
    to_keep,    \* local `to_keep` of remove
    idx,        \* number of links of the batch whose archive_link call has returned
    mpos,       \* 0: between links; k > 0: inside archive_link, k-1 methods done
    cur,        \* the in-memory link archive_link is working on (Optional)
    started,    \* timestamps whose archive_link call has started, in order
    returned,   \* timestamps whose archive_link call has returned, in order
    writes,     \* index contents written by this run, in order of write_main_index calls
    removed,    \* folder names deleted by shutil.rmtree in this run
    calls,      \* extractor calls of this run, in order: <<timestamp, method, status>>
    outcome     \* how the command ended: "running", "returned", "interrupted",
                \* "config_error", "no_match", "crashed"

vars == <<index, sql_index, html_index, staged, cron, outdir, ncmds, report, index0, all_links, new_links, folders,
          sources, cmd, pc, args, links, probed, fixed, cant_fix, to_keep, idx, mpos,
          cur, started, returned, writes, removed, calls, outcome>>

----------------------------------------------------------------------------
(* Bounds of the model *)

MaxLinks == 3       \* links the initial index may hold (timestamps 1..MaxLinks)
MaxJobs == 3        \* jobs the crontab of the user may hold
MaxCmds == 3        \* commands run one after the other in one behaviour

(* Values *)

None == <<>>
Some(x) == <<x>>
IsNone(o) == o = <<>>

Hosts == <<"a.com", "b.com">>
Paths == <<"/x", "/y", "/z">>

\* the k-th URL of the universe: hosts alternate, paths change every two
UrlOf(k) == << Hosts[((k - 1) % 2) + 1], Paths[(((k - 1) \div 2) % 3) + 1] >>

Methods == <<"title", "wget">>
MethodSet == {Methods[i] : i \in 1..Len(Methods)}

EmptyHistory == [m \in MethodSet |-> <<>>]
DoneHistory == [m \in MethodSet |-> <<"succeeded">>]

MkLink(k, hist) ==
    [url |-> UrlOf(k), timestamp |-> k,
     tags |-> IF k % 2 = 0 THEN {"news"} ELSE {},
     sources |-> <<"init">>, history |-> hist]

Range(s) == {s[i] : i \in 1..Len(s)}

NoDuplicates(q) == \A i, j \in 1..Len(q) : i # j => q[i] # q[j]

Prefix(q, n) == SubSeq(q, 1, n)

RECURSIVE SeqOfSetDesc(_)
\* the links of a set as a sequence, newest (largest timestamp) first
SeqOfSetDesc(S) ==
    IF S = {} THEN <<>>
    ELSE LET top == CHOOSE l \in S : \A o \in S : o.timestamp <= l.timestamp
         IN <<top>> \o SeqOfSetDesc(S \ {top})

RECURSIVE SeqOfSetAsc(_)
\* the numbers of a set as a sequence, smallest first
SeqOfSetAsc(S) ==
    IF S = {} THEN <<>>
    ELSE LET low == CHOOSE n \in S : \A o \in S : n <= o
         IN <<low>> \o SeqOfSetAsc(S \ {low})

RECURSIVE SelectSeqBy(_, _)
\* the subsequence of s whose positions are in the set keep
SelectSeqBy(s, keep) ==
    IF s = <<>> THEN <<>>
    ELSE LET n == Len(s)
             front == SelectSeqBy(SubSeq(s, 1, n - 1), keep)
         IN IF n \in keep THEN Append(front, s[n]) ELSE front

----------------------------------------------------------------------------
(* Filter engine *)

FilterTypes == {"exact", "substring", "regex", "domain", "tag"}

\* pattern p occurs in url u as a contiguous run of tokens
Occurs(p, u) ==
    \E i \in 1..(Len(u) + 1) :
        /\ i + Len(p) - 1 <= Len(u)
        /\ SubSeq(u, i, i + Len(p) - 1) = p

\* link_matches_filter for a known filter type; patterns are OR-ed.
\* A literal pattern under `regex` is matched from the start of the URL.
LinkMatchesFilter(link, patterns, filter_type) ==
    \E i \in 1..Len(patterns) :
        LET p == patterns[i] IN
        CASE filter_type = "exact"     -> link.url = p
          [] filter_type = "substring" -> Occurs(p, link.url)
          [] filter_type = "regex"     -> /\ Len(p) <= Len(link.url)
                                          /\ SubSeq(link.url, 1, Len(p)) = p
          [] filter_type = "domain"    -> p = <<link.url[1]>>
          [] filter_type = "tag"       -> Len(p) = 1 /\ p[1] \in link.tags
          [] OTHER                     -> FALSE

\* the after/before tests of list_links (lines 717-720)
InBounds(link, after, before) ==
    /\ ~ (~IsNone(after) /\ link.timestamp < after[1])
    /\ ~ (~IsNone(before) /\ link.timestamp > before[1])

\* load_main_index: the index records, each refreshed from the metadata file
\* of its own folder when that file holds the same link
LoadMainIndex ==
    [i \in 1..Len(index) |->
        LET l == index[i] IN
        IF /\ l.timestamp \in DOMAIN folders
           /\ folders[l.timestamp].meta # None
           /\ folders[l.timestamp].meta[1].url = l.url
           /\ folders[l.timestamp].meta[1].timestamp = l.timestamp
        THEN folders[l.timestamp].meta[1]
        ELSE l]

\* list_links: a generator over the loaded index. link_matches_filter is only
\* called for a link that passed both bounds and only when patterns are given;
\* called with an unknown filter type it raises a configuration error.
ListLinksRaises(ls, patterns, filter_type, after, before) ==
    /\ patterns # <<>>
    /\ filter_type \notin FilterTypes
    /\ \E i \in 1..Len(ls) : InBounds(ls[i], after, before)

ListLinks(ls, patterns, filter_type, after, before) ==
    SelectSeqBy(ls,
        {i \in 1..Len(ls) :
            /\ InBounds(ls[i], after, before)
            /\ \/ patterns = <<>>
               \/ LinkMatchesFilter(ls[i], patterns, filter_type)})

\* should_remove of remove (lines 571-575)
ShouldRemove(link, patterns, filter_type, after, before) ==
    \/ (~IsNone(after) /\ link.timestamp < after[1])
    \/ (~IsNone(before) /\ link.timestamp > before[1])
    \/ LinkMatchesFilter(link, patterns, filter_type)

----------------------------------------------------------------------------
(* Argument values the commands are driven with *)

PatternLists ==
    { << <<"a.com">> >>,                       \* a host
      << <<"/x">> >>,                          \* a path
      << <<"b.com", "/x">> >>,                 \* a whole URL
      << <<"news">> >>,                        \* a tag
      << <<"a.com", "/y">>, <<"b.com">> >> }   \* two patterns

BoundValues == {None, Some(2)}

NoArgs == [none |-> TRUE]

----------------------------------------------------------------------------
(* Initial state: an initialised collection, no command running. The index *)
(* holds any subset of the first MaxLinks links, newest first; each link   *)
(* has its folder, and any subset of them has been archived before.        *)

\* the relational index holds the links as the rows of a table
SqlOf(ls) == Range(ls)

\* the HTML index shows one row per link, in order: its URL and its timestamp
HtmlOf(ls) == [i \in 1..Len(ls) |-> <<ls[i].url, ls[i].timestamp>>]

\* what init makes in the data directory besides the index files
MadeByInit == {"sources", "archive", "logs", "config", "sql", "index"}

NoWrite == [tmp |-> <<>>, renamed |-> {}]

\* a crontab without jobs: on disk (tab), as schedule holds it in memory
\* (mem), as it was when the command began (before), and as the first
\* dedupe_jobs returned it (deduped)
NoCron == [tab |-> <<>>, mem |-> <<>>, before |-> <<>>, deduped |-> <<>>]

\* every representation holds the links of the main index; no write is under
\* way and no command has left anything behind
NothingWritten ==
    /\ sql_index = SqlOf(index)
    /\ html_index = HtmlOf(index)
    /\ staged = NoWrite
    /\ cron = NoCron
    /\ outdir = [made |-> MadeByInit, foreign |-> FALSE]
    /\ ncmds = 0
    /\ report = <<>>
    /\ new_links = <<>>
    /\ probed = <<>>
    /\ fixed = {}
    /\ cant_fix = {}

FolderOf(link, outs) == [meta |-> Some(link), outputs |-> outs]

InitIndexOf(S, D) ==
    SeqOfSetDesc({MkLink(k, IF k \in D THEN DoneHistory ELSE EmptyHistory) : k \in S})

Init ==
    \E S \in SUBSET (1..MaxLinks) : \E D \in SUBSET S :
        /\ index = InitIndexOf(S, D)
        /\ index0 = index
        /\ folders = [k \in S |->
                        FolderOf(MkLink(k, IF k \in D THEN DoneHistory ELSE EmptyHistory),
                                 IF k \in D THEN MethodSet ELSE {})]
        /\ sources = 0
        /\ cmd = "none"
        /\ pc = "idle"
        /\ args = NoArgs
        /\ NothingWritten
        /\ all_links = <<>>
        /\ links = <<>>
        /\ to_keep = <<>>
        /\ idx = 0
        /\ mpos = 0
        /\ cur = None
        /\ started = <<>>
        /\ returned = <<>>
        /\ writes = <<>>
        /\ removed = {}
        /\ calls = <<>>
        /\ outcome = "running"

----------------------------------------------------------------------------
(* remove (lines 514-586) *)

Exit(how) ==
    /\ pc' = "done"
    /\ outcome' = how

OnePattern == << <<"a.com">> >>

\* remove is driven with every filter; the calls that give both filter_str and
\* filter_patterns, or neither, are driven with the other arguments at their defaults
RemoveArgs ==
    [filter_str : PatternLists, filter_patterns : {None},
     filter_type : FilterTypes \cup {"bogus"},
     after : BoundValues, before : BoundValues, delete : BOOLEAN]
    \cup
    [filter_str : {None, OnePattern}, filter_patterns : {None, OnePattern},
     filter_type : {"exact"}, after : {None}, before : {None}, delete : {FALSE}]

\* lines 523-563: the argument checks, then list_links
RemoveCalled(A) ==
    /\ cmd = "none"
    /\ \E a \in A :
        LET patterns == IF a.filter_str # None THEN a.filter_str ELSE a.filter_patterns
            loaded == LoadMainIndex
        IN
        /\ cmd' = "remove"
        /\ args' = [a EXCEPT !.filter_patterns = patterns]
        /\ IF a.filter_str # None /\ a.filter_patterns # None
           THEN Exit("config_error") /\ links' = links
           ELSE IF a.filter_str = None /\ a.filter_patterns = None
           THEN Exit("config_error") /\ links' = links
           ELSE IF ListLinksRaises(loaded, patterns, a.filter_type, a.after, a.before)
           THEN Exit("config_error") /\ links' = links
           ELSE LET found == ListLinks(loaded, patterns, a.filter_type, a.after, a.before)
                IN IF Len(found) = 0
                   THEN Exit("no_match") /\ links' = links
                   ELSE /\ links' = found
                        /\ pc' = "remove_loop"
                        /\ outcome' = outcome
    /\ UNCHANGED <<index, index0, all_links, folders, sources, to_keep, idx,
                   mpos, cur, started, returned, writes, removed, calls,
                   sql_index, html_index, staged, probed, fixed, cant_fix,
                   new_links, outdir, ncmds, report,
                   cron>>

\* RemoveLoop with a fault: the folders go whether delete is set or not
RemoveLoop_DeletesAlways ==
    /\ cmd = "remove" /\ pc = "remove_loop"
    /\ LET loaded == LoadMainIndex
           gone == {i \in 1..Len(loaded) :
                      ShouldRemove(loaded[i], args.filter_patterns, args.filter_type,
                                   args.after, args.before)}
           dirs == {loaded[i].timestamp : i \in gone}
       IN /\ to_keep' = SelectSeqBy(loaded, (1..Len(loaded)) \ gone)
          /\ folders' = [n \in (DOMAIN folders) \ dirs |-> folders[n]]
          /\ removed' = removed \cup (dirs \cap DOMAIN folders)
    /\ pc' = "remove_write"
    /\ UNCHANGED <<index, index0, all_links, sources, cmd, args, links, idx,
                   mpos, cur, started, returned, writes, calls, outcome,
                   sql_index, html_index, staged, probed, fixed, cant_fix,
                   new_links, outdir, ncmds, report,
                   cron>>

\* lines 566-581: the loop over the loaded index, with rmtree when delete is set
RemoveLoop ==
    /\ cmd = "remove" /\ pc = "remove_loop"
    /\ LET loaded == LoadMainIndex
           gone == {i \in 1..Len(loaded) :
                      ShouldRemove(loaded[i], args.filter_patterns, args.filter_type,
                                   args.after, args.before)}
           dirs == IF args.delete THEN {loaded[i].timestamp : i \in gone} ELSE {}
       IN /\ to_keep' = SelectSeqBy(loaded, (1..Len(loaded)) \ gone)
          /\ folders' = [n \in (DOMAIN folders) \ dirs |-> folders[n]]
          /\ removed' = removed \cup (dirs \cap DOMAIN folders)
    /\ pc' = "remove_write"
    /\ UNCHANGED <<index, index0, all_links, sources, cmd, args, links, idx,
                   mpos, cur, started, returned, writes, calls, outcome,
                   sql_index, html_index, staged, probed, fixed, cant_fix,
                   new_links, outdir, ncmds, report,
                   cron>>

\* write_main_index run to completion: every representation of the index on
\* disk holds the given sequence
WriteMainIndex(ls) ==
    /\ index' = ls
    /\ sql_index' = SqlOf(ls)
    /\ html_index' = HtmlOf(ls)
    /\ writes' = Append(writes, ls)

RemoveBegin == RemoveCalled(RemoveArgs)

\* RemoveWrite with a fault: only the structured index is rewritten
RemoveWrite_JsonOnly ==
    /\ cmd = "remove" /\ pc = "remove_write"
    /\ index' = to_keep
    /\ writes' = Append(writes, to_keep)
    /\ Exit("returned")
    /\ UNCHANGED <<index0, all_links, folders, sources, cmd, args, links,
                   to_keep, idx, mpos, cur, started, returned, removed, calls,
                   staged, probed, fixed, cant_fix, new_links, outdir, ncmds,
                   report, sql_index, html_index,
                   cron>>

\* lines 583-586
RemoveWrite ==
    /\ cmd = "remove" /\ pc = "remove_write"
    /\ WriteMainIndex(to_keep)
    /\ Exit("returned")
    /\ UNCHANGED <<index0, all_links, folders, sources, cmd, args, links,
                   to_keep, idx, mpos, cur, started, returned, removed, calls,
                   staged, probed, fixed, cant_fix, new_links, outdir, ncmds,
                   report,
                   cron>>

----------------------------------------------------------------------------
(* Link merge (import_new_links) *)

\* URL canonicalization: the host is lowercased, a default port and a
\* fragment are dropped. A URL is a token sequence: host, optional port,
\* path, optional fragment.
LowerHost(h) ==
    CASE h = "A.COM" -> "a.com"
      [] h = "B.COM" -> "b.com"
      [] OTHER       -> h

IsDropped(t) == t \in {":80", "#top"}

Canon(u) ==
    LET kept == SelectSeq(u, LAMBDA t : ~IsDropped(t))
    IN [kept EXCEPT ![1] = LowerHost(@)]

RECURSIVE LowestUniqTimestamp(_, _)
\* the first timestamp from ts upwards that no link of `used` has; the unit
\* of the model's timestamps is the smallest decimal step
LowestUniqTimestamp(used, ts) ==
    IF ts \notin used THEN ts ELSE LowestUniqTimestamp(used, ts + 1)

RECURSIVE MergeLinks(_, _, _)
\* merge the incoming links, in order, into the set `all`; `new` collects
\* the links created on the way. Result: [all |-> set, new |-> set].
\* The matching key is the canonical URL. For a URL already held the existing
\* record keeps its timestamp, the incoming sources are appended, and the tags
\* are taken from the incoming link only if the existing ones are empty.
MergeLinks(all, new, incoming) ==
    IF incoming = <<>> THEN [all |-> all, new |-> new]
    ELSE LET inc == Head(incoming)
             same == {l \in all : Canon(l.url) = Canon(inc.url)}
         IN IF same # {}
            THEN LET old == CHOOSE l \in same : TRUE
                     upd == [old EXCEPT !.sources = @ \o inc.sources,
                                        !.tags = IF @ = {} THEN inc.tags ELSE @]
                 IN MergeLinks((all \ {old}) \cup {upd},
                               IF old \in new THEN (new \ {old}) \cup {upd} ELSE new,
                               Tail(incoming))
            ELSE LET fresh == [url |-> Canon(inc.url),
                               timestamp |-> LowestUniqTimestamp(
                                                {l.timestamp : l \in all}, inc.timestamp),
                               tags |-> inc.tags, sources |-> inc.sources,
                               history |-> inc.history]
                 IN MergeLinks(all \cup {fresh}, new \cup {fresh}, Tail(incoming))

\* import_new_links: (all_links, new_links), both newest first
ImportNewLinks(existing, incoming) ==
    LET m == MergeLinks(Range(existing), {}, incoming)
    IN [all_links |-> SeqOfSetDesc(m.all), new_links |-> SeqOfSetDesc(m.new)]

\* a link as parsed from an import source given on the command line
Incoming(k, ts) ==
    [url |-> UrlOf(k), timestamp |-> ts, tags |-> {}, sources |-> <<"cli">>,
     history |-> EmptyHistory]

\* the parsed content of an import source: a URL of the index, a URL the index
\* never held, or both; stamped with a time an index link may already have
Imports ==
    UNION { { << Incoming(1, t) >>,
              << Incoming(MaxLinks + 1, t) >>,
              << Incoming(2, t), Incoming(MaxLinks + 1, t) >> } : t \in {2, MaxLinks + 1} }

OneImport == << Incoming(1, 2) >>

----------------------------------------------------------------------------
(* Folder states (list_folders and the get_*_folders it dispatches to) *)

FolderStatuses == {"indexed", "archived", "unarchived", "present", "valid", "invalid",
                   "duplicate", "orphaned", "corrupted", "unrecognized"}

\* is_archived: a successful history entry whose output is still in the folder
IsArchived(link) ==
    /\ link.timestamp \in DOMAIN folders
    /\ \E m \in MethodSet : /\ m \in folders[link.timestamp].outputs
                            /\ "succeeded" \in Range(link.history[m])

HasFolder(link) == link.timestamp \in DOMAIN folders

\* each result is a sequence of <<folder name, Optional link>> pairs:
\* the links of ls at the positions `keep`, in the order of ls
PairsOfLinks(ls, keep) ==
    LET sel == SelectSeqBy(ls, keep)
    IN [i \in 1..Len(sel) |-> <<sel[i].timestamp, Some(sel[i])>>]

GetIndexedFolders(ls) ==
    PairsOfLinks(ls, {i \in 1..Len(ls) : HasFolder(ls[i])})
GetArchivedFolders(ls) ==
    PairsOfLinks(ls, {i \in 1..Len(ls) : HasFolder(ls[i]) /\ IsArchived(ls[i])})
GetUnarchivedFolders(ls) ==
    PairsOfLinks(ls, {i \in 1..Len(ls) : HasFolder(ls[i]) /\ ~IsArchived(ls[i])})

LinkAt(ls, name) ==
    LET hit == {i \in 1..Len(ls) : ls[i].timestamp = name}
    IN IF hit = {} THEN None ELSE Some(ls[CHOOSE i \in hit : TRUE])

IsValidFolder(ls, name) ==
    /\ LinkAt(ls, name) # None
    /\ folders[name].meta # None
    /\ folders[name].meta[1].timestamp = name

\* another folder holds metadata for the same canonical URL
IsDuplicateFolder(ls, name) ==
    /\ folders[name].meta # None
    /\ \E o \in DOMAIN folders :
          /\ o # name
          /\ folders[o].meta # None
          /\ Canon(folders[o].meta[1].url) = Canon(folders[name].meta[1].url)

\* the folder holds metadata for a URL that no link of ls has
IsOrphanedFolder(ls, name) ==
    /\ folders[name].meta # None
    /\ \A i \in 1..Len(ls) : Canon(ls[i].url) # Canon(folders[name].meta[1].url)

\* no metadata and nothing else in the folder
IsCorruptedFolder(ls, name) ==
    folders[name].meta = None /\ folders[name].outputs = {}

\* the folders `names`, by ascending name, each with the link of ls it is
\* named after, else with the link of its own metadata file
PairsOfFolders(ls, names) ==
    LET sel == SeqOfSetAsc(names)
    IN [i \in 1..Len(sel) |->
          <<sel[i], IF LinkAt(ls, sel[i]) # None THEN LinkAt(ls, sel[i])
                    ELSE folders[sel[i]].meta>>]

GetPresentFolders(ls) == PairsOfFolders(ls, DOMAIN folders)
GetValidFolders(ls) ==
    PairsOfFolders(ls, {n \in DOMAIN folders : IsValidFolder(ls, n)})
GetInvalidFolders(ls) ==
    PairsOfFolders(ls, {n \in DOMAIN folders : ~IsValidFolder(ls, n)})
GetDuplicateFolders(ls) ==
    PairsOfFolders(ls, {n \in DOMAIN folders : IsDuplicateFolder(ls, n)})
GetOrphanedFolders(ls) ==
    PairsOfFolders(ls, {n \in DOMAIN folders : IsOrphanedFolder(ls, n)})
GetCorruptedFolders(ls) ==
    PairsOfFolders(ls, {n \in DOMAIN folders : IsCorruptedFolder(ls, n)})
GetUnrecognizedFolders(ls) ==
    PairsOfFolders(ls, {n \in DOMAIN folders :
                          /\ ~IsValidFolder(ls, n) /\ ~IsDuplicateFolder(ls, n)
                          /\ ~IsOrphanedFolder(ls, n) /\ ~IsCorruptedFolder(ls, n)})

\* list_folders (lines 728-758): any other status raises ValueError
ListFoldersRaises(status) == status \notin FolderStatuses

\* ListFolders with a fault: the branch for unarchived calls the function of
\* the branch above it
ListFolders_UnarchivedAsArchived(ls, status) ==
    CASE status = "indexed"      -> GetIndexedFolders(ls)
      [] status = "archived"     -> GetArchivedFolders(ls)
      [] status = "unarchived"   -> GetArchivedFolders(ls)
      [] status = "present"      -> GetPresentFolders(ls)
      [] status = "valid"        -> GetValidFolders(ls)
      [] status = "invalid"      -> GetInvalidFolders(ls)
      [] status = "duplicate"    -> GetDuplicateFolders(ls)
      [] status = "orphaned"     -> GetOrphanedFolders(ls)
      [] status = "corrupted"    -> GetCorruptedFolders(ls)
      [] status = "unrecognized" -> GetUnrecognizedFolders(ls)

\* ListFolders with a fault: the branch for duplicate calls the function of
\* the branch below it
ListFolders_DuplicateAsOrphaned(ls, status) ==
    CASE status = "indexed"      -> GetIndexedFolders(ls)
      [] status = "archived"     -> GetArchivedFolders(ls)
      [] status = "unarchived"   -> GetUnarchivedFolders(ls)
      [] status = "present"      -> GetPresentFolders(ls)
      [] status = "valid"        -> GetValidFolders(ls)
      [] status = "invalid"      -> GetInvalidFolders(ls)
      [] status = "duplicate"    -> GetOrphanedFolders(ls)
      [] status = "orphaned"     -> GetOrphanedFolders(ls)
      [] status = "corrupted"    -> GetCorruptedFolders(ls)
      [] status = "unrecognized" -> GetUnrecognizedFolders(ls)

ListFolders(ls, status) ==
    CASE status = "indexed"      -> GetIndexedFolders(ls)
      [] status = "archived"     -> GetArchivedFolders(ls)
      [] status = "unarchived"   -> GetUnarchivedFolders(ls)
      [] status = "present"      -> GetPresentFolders(ls)
      [] status = "valid"        -> GetValidFolders(ls)
      [] status = "invalid"      -> GetInvalidFolders(ls)
      [] status = "duplicate"    -> GetDuplicateFolders(ls)
      [] status = "orphaned"     -> GetOrphanedFolders(ls)
      [] status = "corrupted"    -> GetCorruptedFolders(ls)
      [] status = "unrecognized" -> GetUnrecognizedFolders(ls)

----------------------------------------------------------------------------
(* The archive loop shared by add (lines 489-511) and update (lines 631-653) *)

\* links_after_timestamp: skips every link whose timestamp is less than resume
LinksAfterTimestamp(ls, resume) ==
    IF IsNone(resume) THEN ls
    ELSE SelectSeqBy(ls, {i \in 1..Len(ls) : ~ (ls[i].timestamp < resume[1])})

\* Batch with a fault: update iterates links without the resume filter
Batch_IgnoresResume == links

\* the sequence the for loop iterates
Batch == IF cmd = "update" THEN LinksAfterTimestamp(links, args.resume) ELSE links

\* Overwrite with a fault: every run overwrites
Overwrite_Always == TRUE

\* the overwrite flag archive_link is called with: update passes its own
\* (line 638), add passes none (line 496)
Overwrite == IF cmd = "update" THEN args.overwrite ELSE FALSE

Timestamps(ls) == [i \in 1..Len(ls) |-> ls[i].timestamp]

\* ArchiveLinkCall with a fault: the loop walks the batch from its end
ArchiveLinkCall_Reversed ==
    /\ pc = "archiving" /\ mpos = 0 /\ idx < Len(Batch)
    /\ LET link == Batch[Len(Batch) - idx] IN
        /\ cur' = Some(link)
        /\ started' = Append(started, link.timestamp)
        /\ folders' = IF link.timestamp \in DOMAIN folders THEN folders
                      ELSE folders @@ (link.timestamp :> [meta |-> None, outputs |-> {}])
    /\ mpos' = 1
    /\ UNCHANGED <<index, index0, all_links, sources, cmd, pc, args, links,
                   to_keep, idx, returned, writes, removed, calls, outcome,
                   sql_index, html_index, staged, probed, fixed, cant_fix,
                   new_links, outdir, ncmds, report,
                   cron>>

\* the loop hands the next link of the batch to archive_link
ArchiveLinkCall ==
    /\ pc = "archiving" /\ mpos = 0 /\ idx < Len(Batch)
    /\ LET link == Batch[idx + 1] IN
        /\ cur' = Some(link)
        /\ started' = Append(started, link.timestamp)
        /\ folders' = IF link.timestamp \in DOMAIN folders THEN folders
                      ELSE folders @@ (link.timestamp :> [meta |-> None, outputs |-> {}])
    /\ mpos' = 1
    /\ UNCHANGED <<index, index0, all_links, sources, cmd, pc, args, links,
                   to_keep, idx, returned, writes, removed, calls, outcome,
                   sql_index, html_index, staged, probed, fixed, cant_fix,
                   new_links, outdir, ncmds, report,
                   cron>>

\* archive_link runs the extractor methods one after the other; a method that
\* already has a successful output in the folder is skipped unless overwrite
RunMethod ==
    /\ pc = "archiving" /\ mpos \in 1..Len(Methods)
    /\ LET m == Methods[mpos]
           link == cur[1]
           ts == link.timestamp
           have == m \in folders[ts].outputs /\ "succeeded" \in Range(link.history[m])
       IN \/ /\ have /\ ~Overwrite
             /\ UNCHANGED <<cur, folders, calls>>
          \/ /\ ~have \/ Overwrite
             /\ \E status \in {"succeeded", "failed"} :
                 /\ cur' = Some([link EXCEPT !.history[m] = Append(@, status)])
                 /\ calls' = Append(calls, <<ts, m, status>>)
                 /\ folders' = IF status = "succeeded"
                               THEN [folders EXCEPT ![ts].outputs = @ \cup {m}]
                               ELSE folders
    /\ mpos' = mpos + 1
    /\ UNCHANGED <<index, index0, all_links, sources, cmd, pc, args, links,
                   to_keep, idx, started, returned, writes, removed, outcome,
                   sql_index, html_index, staged, probed, fixed, cant_fix,
                   new_links, outdir, ncmds, report,
                   cron>>

\* ArchiveLinkReturn with a fault: the loop ends after a link one of whose
\* methods failed
ArchiveLinkReturn_BreakOnFailure ==
    /\ pc = "archiving" /\ mpos = Len(Methods) + 1
    /\ folders' = [folders EXCEPT ![cur[1].timestamp].meta = cur]
    /\ returned' = Append(returned, cur[1].timestamp)
    /\ idx' = IF \E i \in 1..Len(calls) :
                    calls[i][1] = cur[1].timestamp /\ calls[i][3] = "failed"
              THEN Len(Batch) ELSE idx + 1
    /\ mpos' = 0
    /\ cur' = None
    /\ UNCHANGED <<index, index0, all_links, sources, cmd, pc, args, links,
                   to_keep, started, writes, removed, calls, outcome, sql_index,
                   html_index, staged, probed, fixed, cant_fix, new_links,
                   outdir, ncmds, report,
                   cron>>

\* archive_link writes the link's details into its folder and returns; the
\* loop moves on to the next link
ArchiveLinkReturn ==
    /\ pc = "archiving" /\ mpos = Len(Methods) + 1
    /\ folders' = [folders EXCEPT ![cur[1].timestamp].meta = cur]
    /\ returned' = Append(returned, cur[1].timestamp)
    /\ idx' = idx + 1
    /\ mpos' = 0
    /\ cur' = None
    /\ UNCHANGED <<index, index0, all_links, sources, cmd, pc, args, links,
                   to_keep, started, writes, removed, calls, outcome, sql_index,
                   html_index, staged, probed, fixed, cant_fix, new_links,
                   outdir, ncmds, report,
                   cron>>

\* Interrupt with a fault: the handler writes the index before it exits
Interrupt_WritesIndex ==
    /\ pc = "archiving"
    /\ WriteMainIndex(LoadMainIndex)
    /\ Exit("interrupted")
    /\ UNCHANGED <<index0, all_links, folders, sources, cmd, args, links,
                   to_keep, idx, mpos, cur, started, returned, removed, calls,
                   staged, probed, fixed, cant_fix, new_links, outdir, ncmds,
                   report,
                   cron>>

\* KeyboardInterrupt inside the try block (lines 498-500, 640-642): the pause
\* is logged and the command ends with SystemExit(0). A link interrupted half
\* way may or may not have had its details written.
Interrupt ==
    /\ pc = "archiving"
    /\ \/ UNCHANGED folders
       \/ /\ mpos > 0
          /\ folders' = [folders EXCEPT ![cur[1].timestamp].meta = cur]
    /\ Exit("interrupted")
    /\ UNCHANGED <<index, index0, all_links, sources, cmd, args, links, to_keep,
                   idx, mpos, cur, started, returned, writes, removed, calls,
                   sql_index, html_index, staged, probed, fixed, cant_fix,
                   new_links, outdir, ncmds, report,
                   cron>>

\* any other exception inside the try block is re-raised (lines 502-504,
\* 644-646) and ends the command with a traceback
Crash ==
    /\ pc = "archiving"
    /\ Exit("crashed")
    /\ UNCHANGED <<index, index0, all_links, folders, sources, cmd, args, links,
                   to_keep, idx, mpos, cur, started, returned, writes, removed,
                   calls, sql_index, html_index, staged, probed, fixed,
                   cant_fix, new_links, outdir, ncmds, report,
                   cron>>

\* Step 4 (lines 506-511, 648-653): the index is loaded again and written
ArchiveFinish ==
    /\ pc = "archiving" /\ mpos = 0 /\ idx = Len(Batch)
    /\ WriteMainIndex(LoadMainIndex)
    /\ Exit("returned")
    /\ UNCHANGED <<index0, all_links, folders, sources, cmd, args, links,
                   to_keep, idx, mpos, cur, started, returned, removed, calls,
                   staged, probed, fixed, cant_fix, new_links, outdir, ncmds,
                   report,
                   cron>>

----------------------------------------------------------------------------
(* add (lines 451-511) *)

\* add is driven with an import given one way (every import content), and with
\* the import given both ways; a call that gives neither is not modelled
AddArgs ==
    [import_str : {None}, import_path : Imports,
     update_all : BOOLEAN, index_only : BOOLEAN]
    \cup
    [import_str : {OneImport}, import_path : {None, OneImport},
     update_all : {TRUE}, index_only : BOOLEAN]

\* lines 459-473: the argument check, then the import source is saved
AddCalled(A) ==
    /\ cmd = "none"
    /\ \E a \in A :
        /\ cmd' = "add"
        /\ IF a.import_str # None /\ a.import_path # None
           THEN /\ args' = a
                /\ Exit("config_error")
                /\ sources' = sources
           ELSE /\ args' = [a EXCEPT !.import_path =
                                IF a.import_str # None THEN a.import_str ELSE a.import_path]
                /\ sources' = sources + 1
                /\ pc' = "add_index"
                /\ outcome' = outcome
    /\ UNCHANGED <<index, index0, all_links, folders, links, to_keep, idx, mpos,
                   cur, started, returned, writes, removed, calls, sql_index,
                   html_index, staged, probed, fixed, cant_fix, new_links,
                   outdir, ncmds, report,
                   cron>>

AddBegin == AddCalled(AddArgs)

\* AddIndex with a fault: the parsed links are appended to the index as they
\* come, without the merge
AddIndex_AppendsImport ==
    /\ cmd = "add" /\ pc = "add_index"
    /\ LET merged == [all_links |-> LoadMainIndex \o args.import_path,
                      new_links |-> args.import_path] IN
        /\ WriteMainIndex(merged.all_links)
        /\ all_links' = merged.all_links
        /\ new_links' = merged.new_links
        /\ IF args.index_only
           THEN Exit("returned") /\ links' = links
           ELSE /\ links' = IF args.update_all THEN merged.all_links ELSE merged.new_links
                /\ pc' = "archiving"
                /\ outcome' = outcome
    /\ UNCHANGED <<index0, folders, sources, cmd, args, to_keep, idx, mpos, cur,
                   started, returned, removed, calls, staged, probed, fixed,
                   cant_fix, outdir, ncmds, report,
                   cron>>

\* AddIndex with a fault: index_only is not looked at
AddIndex_IgnoresIndexOnly ==
    /\ cmd = "add" /\ pc = "add_index"
    /\ LET merged == ImportNewLinks(LoadMainIndex, args.import_path) IN
        /\ WriteMainIndex(merged.all_links)
        /\ all_links' = merged.all_links
        /\ new_links' = merged.new_links
        /\ links' = IF args.update_all THEN merged.all_links ELSE merged.new_links
        /\ pc' = "archiving"
        /\ outcome' = outcome
    /\ UNCHANGED <<index0, folders, sources, cmd, args, to_keep, idx, mpos, cur,
                   started, returned, removed, calls, staged, probed, fixed,
                   cant_fix, outdir, ncmds, report,
                   cron>>

\* AddIndex with a fault: the merged index is not written before archiving
AddIndex_NoFirstWrite ==
    /\ cmd = "add" /\ pc = "add_index"
    /\ LET merged == ImportNewLinks(LoadMainIndex, args.import_path) IN
        /\ all_links' = merged.all_links
        /\ new_links' = merged.new_links
        /\ IF args.index_only
           THEN Exit("returned") /\ links' = links
           ELSE /\ links' = IF args.update_all THEN merged.all_links ELSE merged.new_links
                /\ pc' = "archiving"
                /\ outcome' = outcome
    /\ UNCHANGED <<index, index0, folders, sources, cmd, args, to_keep, idx,
                   mpos, cur, started, returned, writes, removed, calls,
                   sql_index, html_index, staged, probed, fixed, cant_fix,
                   outdir, ncmds, report,
                   cron>>

\* lines 475-491: load, merge, first index write, choice of the batch
AddIndex ==
    /\ cmd = "add" /\ pc = "add_index"
    /\ LET merged == ImportNewLinks(LoadMainIndex, args.import_path) IN
        /\ WriteMainIndex(merged.all_links)
        /\ all_links' = merged.all_links
        /\ new_links' = merged.new_links
        /\ IF args.index_only
           THEN Exit("returned") /\ links' = links
           ELSE /\ links' = IF args.update_all THEN merged.all_links ELSE merged.new_links
                /\ pc' = "archiving"
                /\ outcome' = outcome
    /\ UNCHANGED <<index0, folders, sources, cmd, args, to_keep, idx, mpos, cur,
                   started, returned, removed, calls, staged, probed, fixed,
                   cant_fix, outdir, ncmds, report,
                   cron>>

----------------------------------------------------------------------------
(* add driven over the merge: index only, with import sources of every kind  *)

UpperHost(h) ==
    CASE h = "a.com" -> "A.COM"
      [] h = "b.com" -> "B.COM"
      [] OTHER       -> h

\* another spelling of the same URL: the host in capitals and a fragment
Shout(u) == [u EXCEPT ![1] = UpperHost(@)] \o <<"#top">>

ImportForms == {"reimport", "tagged", "shouted"}

\* link k as an import source holds it: the very link an index holds; the
\* URL from the command line, tagged, stamped with a time no link has; or the
\* URL in another spelling, stamped with a time the index may hold
ImportedLink(k, form) ==
    CASE form = "reimport" -> MkLink(k, EmptyHistory)
      [] form = "tagged"   -> [Incoming(k, MaxLinks + 1) EXCEPT !.tags = {"imported"}]
      [] form = "shouted"  -> [Incoming(k, 2) EXCEPT !.url = Shout(UrlOf(k))]

ImportOf(K, form) ==
    LET ks == SeqOfSetAsc(K) IN [i \in 1..Len(ks) |-> ImportedLink(ks[i], form)]

\* every subset of the URLs of the universe and one more, in each form; and
\* one import that names the same new URL in two spellings
MergeImports ==
    {ImportOf(K, form) : K \in SUBSET (1..(MaxLinks + 1)), form \in ImportForms}
    \cup
    { << Incoming(MaxLinks + 1, 1), ImportedLink(MaxLinks + 1, "shouted") >> }

MergeArgs ==
    [import_str : {None}, import_path : MergeImports,
     update_all : {FALSE}, index_only : {TRUE}]

AddMerge == AddCalled(MergeArgs)

NextMerge ==
    \/ AddMerge
    \/ AddIndex

SpecMerge == Init /\ [][NextMerge]_vars

----------------------------------------------------------------------------
(* The merge scenario: the index holds a.com at timestamp 100 and b.com at   *)
(* 200; add is given a.com again and the new c.com on the command line. The  *)
(* command line carries no timestamps, so the parsed links are stamped with  *)
(* the time of the import, which is not before the newest link of the index. *)

ScenarioLink(host, ts, source) ==
    [url |-> <<host>>, timestamp |-> ts, tags |-> {}, sources |-> <<source>>,
     history |-> EmptyHistory]

MergeScenarioIndex ==
    << ScenarioLink("b.com", 200, "init"), ScenarioLink("a.com", 100, "init") >>

ImportTimes == {200, 201, 300}

MergeScenarioImports ==
    UNION { { << ScenarioLink("a.com", t, "cli"), ScenarioLink("c.com", t, "cli") >>,
              << ScenarioLink("c.com", t, "cli"), ScenarioLink("a.com", t, "cli") >> }
            : t \in ImportTimes }

InitMergeScenario ==
    /\ index = MergeScenarioIndex
    /\ index0 = index
    /\ folders = [k \in {100, 200} |->
                    FolderOf(CHOOSE l \in Range(MergeScenarioIndex) : l.timestamp = k, {})]
    /\ sources = 0
    /\ cmd = "none"
    /\ pc = "idle"
    /\ args = NoArgs
    /\ NothingWritten
    /\ all_links = <<>>
    /\ links = <<>>
    /\ to_keep = <<>>
    /\ idx = 0
    /\ mpos = 0
    /\ cur = None
    /\ started = <<>>
    /\ returned = <<>>
    /\ writes = <<>>
    /\ removed = {}
    /\ calls = <<>>
    /\ outcome = "running"

MergeScenarioArgs ==
    [import_str : {None}, import_path : MergeScenarioImports,
     update_all : BOOLEAN, index_only : BOOLEAN]

AddScenario == AddCalled(MergeScenarioArgs)

NextMergeScenario ==
    \/ AddScenario
    \/ AddIndex
    \/ ArchiveLinkCall
    \/ RunMethod
    \/ ArchiveLinkReturn
    \/ Interrupt
    \/ Crash
    \/ ArchiveFinish

SpecMergeScenario == InitMergeScenario /\ [][NextMergeScenario]_vars

----------------------------------------------------------------------------
(* update (lines 588-653) *)

FilterCases ==
    { [filter_patterns |-> None, filter_type |-> "none", after |-> None, before |-> None],
      [filter_patterns |-> << <<"a.com">> >>, filter_type |-> "domain",
       after |-> None, before |-> None],
      [filter_patterns |-> << <<"a.com">> >>, filter_type |-> "bogus",
       after |-> None, before |-> None],
      [filter_patterns |-> << <<"/x">> >>, filter_type |-> "substring",
       after |-> Some(2), before |-> None],
      [filter_patterns |-> None, filter_type |-> "none",
       after |-> None, before |-> Some(2)] }

UpdateArgs ==
    [filter : FilterCases,
     status : {"none", "bogus", "indexed", "archived", "unarchived"},
     resume : BoundValues,
     only_new : BOOLEAN, index_only : BOOLEAN, overwrite : BOOLEAN]

\* lines 602-612: load the index and write it back
UpdateCalled(A) ==
    /\ cmd = "none"
    /\ \E a \in A :
        /\ cmd' = "update"
        /\ args' = a
    /\ WriteMainIndex(LoadMainIndex)
    /\ pc' = "update_filter"
    /\ UNCHANGED <<index0, all_links, folders, sources, links, to_keep, idx,
                   mpos, cur, started, returned, removed, calls, outcome,
                   staged, probed, fixed, cant_fix, new_links, outdir, ncmds,
                   report,
                   cron>>

UpdateBegin == UpdateCalled(UpdateArgs)

\* lines 614-633: list_links, list_folders, choice of the batch
UpdateFilter ==
    /\ cmd = "update" /\ pc = "update_filter"
    /\ LET f == args.filter
           loaded == LoadMainIndex
       IN
       IF ListLinksRaises(loaded, f.filter_patterns, f.filter_type, f.after, f.before)
       THEN Exit("config_error") /\ UNCHANGED <<all_links, links>>
       ELSE IF ListFoldersRaises(args.status)
       THEN Exit("value_error") /\ UNCHANGED <<all_links, links>>
       ELSE LET matching_links == ListLinks(loaded, f.filter_patterns, f.filter_type,
                                            f.after, f.before)
                matching_folders == ListFolders(matching_links, args.status)
                picked == SelectSeqBy(matching_folders,
                              {i \in 1..Len(matching_folders) :
                                  matching_folders[i][2] # None})
                selected == [i \in 1..Len(picked) |-> picked[i][2][1]]
            IN /\ all_links' = selected
               /\ IF args.index_only
                  THEN Exit("returned") /\ links' = links
                  ELSE /\ links' = IF args.only_new THEN <<>> ELSE selected
                       /\ pc' = "archiving"
                       /\ outcome' = outcome
    /\ UNCHANGED <<index, index0, folders, sources, cmd, args, to_keep, idx,
                   mpos, cur, started, returned, writes, removed, calls,
                   sql_index, html_index, staged, probed, fixed, cant_fix,
                   new_links, outdir, ncmds, report,
                   cron>>

----------------------------------------------------------------------------
(* Exit status of the process for each way a command ends *)

ExitStatus(how) ==
    CASE how = "returned"     -> 0     \* the function returns
      [] how = "interrupted"  -> 0     \* SystemExit(0), lines 500 and 642
      [] how = "config_error" -> 2     \* SystemExit(2), lines 467, 531, 542
      [] how = "no_match"     -> 1     \* SystemExit(1), line 560
      [] how = "value_error"  -> 1     \* uncaught ValueError, line 758
      [] how = "crashed"      -> 1     \* uncaught exception, lines 504 and 646
      [] how = "not_empty"    -> 1     \* SystemExit(1), line 247
      [] how = "no_jobs"      -> 1     \* SystemExit(1), line 881
      [] how = "bad_period"   -> 1     \* SystemExit(1), line 941

----------------------------------------------------------------------------

Next ==
    \/ RemoveBegin
    \/ RemoveLoop
    \/ RemoveWrite
    \/ AddBegin
    \/ AddIndex
    \/ UpdateBegin
    \/ UpdateFilter
    \/ ArchiveLinkCall
    \/ RunMethod
    \/ ArchiveLinkReturn
    \/ Interrupt
    \/ Crash
    \/ ArchiveFinish

Spec == Init /\ [][Next]_vars

----------------------------------------------------------------------------
(* The resume scenario: a batch of five links, newest first, was interrupted *)
(* after two links completed. Their folders hold the history of that run,   *)
(* whatever each method's result was; the index was not written again.      *)
(* update is then called with resume set to the timestamp of the 2nd link.  *)

ScenarioIndex == SeqOfSetDesc({MkLink(k, EmptyHistory) : k \in 1..5})

ScenarioCompleted == Prefix(Timestamps(ScenarioIndex), 2)

ScenarioResume == Some(ScenarioCompleted[2])

InitResume ==
    \E h \in [Range(ScenarioCompleted) -> [MethodSet -> {<<"succeeded">>, <<"failed">>}]] :
        /\ index = ScenarioIndex
        /\ index0 = index
        /\ folders = [k \in 1..5 |->
                        IF k \in Range(ScenarioCompleted)
                        THEN FolderOf(MkLink(k, h[k]),
                                      {m \in MethodSet : h[k][m] = <<"succeeded">>})
                        ELSE FolderOf(MkLink(k, EmptyHistory), {})]
        /\ sources = 0
        /\ cmd = "none"
        /\ pc = "idle"
        /\ args = NoArgs
        /\ NothingWritten
        /\ all_links = <<>>
        /\ links = <<>>
        /\ to_keep = <<>>
        /\ idx = 0
        /\ mpos = 0
        /\ cur = None
        /\ started = <<>>
        /\ returned = <<>>
        /\ writes = <<>>
        /\ removed = {}
        /\ calls = <<>>
        /\ outcome = "running"

ResumeArgs ==
    [filter : {[filter_patterns |-> None, filter_type |-> "none",
                after |-> None, before |-> None]},
     status : {"indexed"},
     resume : {ScenarioResume},
     only_new : {FALSE}, index_only : {FALSE}, overwrite : BOOLEAN]

UpdateResumed == UpdateCalled(ResumeArgs)

NextResume ==
    \/ UpdateResumed
    \/ UpdateFilter
    \/ ArchiveLinkCall
    \/ RunMethod
    \/ ArchiveLinkReturn
    \/ Interrupt
    \/ Crash
    \/ ArchiveFinish

SpecResume == InitResume /\ [][NextResume]_vars

----------------------------------------------------------------------------
(* list (lines 656-702) and the generator list_links (lines 705-726), one    *)
(* iteration of its for loop per step                                        *)

\* list is driven with the patterns as arguments (or none), every filter
\* type, bounds below, at and above timestamps of the index, and no sort;
\* the call that gives the patterns both ways is driven with the defaults
ListArgs ==
    [filter_patterns_str : {None}, filter_patterns : PatternLists \cup {None},
     filter_type : FilterTypes \cup {"bogus"},
     after : {None, Some(2), Some(MaxLinks)}, before : {None, Some(1), Some(2)},
     status : {"indexed", "bogus"}]
    \cup
    [filter_patterns_str : {OnePattern}, filter_patterns : {None, OnePattern},
     filter_type : {"exact"}, after : {None}, before : {None}, status : {"indexed"}]

\* lines 669-678: the argument check; list_links is then called and iterated
ListCalled(A) ==
    /\ cmd = "none"
    /\ \E a \in A :
        /\ cmd' = "list"
        /\ IF a.filter_patterns # <<>> /\ a.filter_patterns_str # <<>>
           THEN args' = a /\ Exit("config_error")
           ELSE /\ args' = [a EXCEPT !.filter_patterns =
                               IF a.filter_patterns_str # <<>>
                               THEN a.filter_patterns_str ELSE a.filter_patterns]
                /\ pc' = "list_loop"
                /\ outcome' = outcome
    /\ UNCHANGED <<index, sql_index, html_index, staged, index0, all_links,
                   new_links, folders, sources, links, probed, fixed, cant_fix,
                   to_keep, idx, mpos, cur, started, returned, writes, removed,
                   calls, outdir, ncmds, report,
                   cron>>

ListBegin == ListCalled(ListArgs)

\* ListStep with a fault: the patterns are tested before the bounds
ListStep_PatternsFirst ==
    /\ cmd = "list" /\ pc = "list_loop" /\ idx < Len(LoadMainIndex)
    /\ LET link == LoadMainIndex[idx + 1]
           out == \/ (~IsNone(args.after) /\ link.timestamp < args.after[1])
                  \/ (~IsNone(args.before) /\ link.timestamp > args.before[1])
       IN IF args.filter_patterns # <<>>
          THEN /\ probed' = Append(probed, link.timestamp)
               /\ IF args.filter_type \notin FilterTypes
                  THEN Exit("config_error") /\ UNCHANGED <<links, idx>>
                  ELSE /\ links' = IF ~out /\ LinkMatchesFilter(link, args.filter_patterns,
                                                                 args.filter_type)
                                   THEN Append(links, link) ELSE links
                       /\ idx' = idx + 1
                       /\ UNCHANGED <<pc, outcome>>
          ELSE /\ links' = IF out THEN links ELSE Append(links, link)
               /\ idx' = idx + 1
               /\ UNCHANGED <<probed, pc, outcome>>
    /\ UNCHANGED <<index, sql_index, html_index, staged, index0, all_links,
                   new_links, folders, sources, cmd, args, fixed, cant_fix,
                   to_keep, mpos, cur, started, returned, writes, removed,
                   calls, outdir, ncmds, report,
                   cron>>

\* lines 716-726: one iteration of `for link in all_links`. link_matches_filter
\* called with an unknown filter type raises a configuration error.
ListStep ==
    /\ cmd = "list" /\ pc = "list_loop" /\ idx < Len(LoadMainIndex)
    /\ LET link == LoadMainIndex[idx + 1] IN
       IF ~IsNone(args.after) /\ link.timestamp < args.after[1]
       THEN idx' = idx + 1 /\ UNCHANGED <<links, probed, pc, outcome>>       \* continue
       ELSE IF ~IsNone(args.before) /\ link.timestamp > args.before[1]
       THEN idx' = idx + 1 /\ UNCHANGED <<links, probed, pc, outcome>>       \* continue
       ELSE IF args.filter_patterns # <<>>
       THEN /\ probed' = Append(probed, link.timestamp)
            /\ IF args.filter_type \notin FilterTypes
               THEN Exit("config_error") /\ UNCHANGED <<links, idx>>
               ELSE /\ links' = IF LinkMatchesFilter(link, args.filter_patterns,
                                                     args.filter_type)
                                THEN Append(links, link) ELSE links
                    /\ idx' = idx + 1
                    /\ UNCHANGED <<pc, outcome>>
       ELSE /\ links' = Append(links, link)
            /\ idx' = idx + 1
            /\ UNCHANGED <<probed, pc, outcome>>
    /\ UNCHANGED <<index, sql_index, html_index, staged, index0, all_links,
                   new_links, folders, sources, cmd, args, fixed, cant_fix,
                   to_keep, mpos, cur, started, returned, writes, removed,
                   calls, outdir, ncmds, report,
                   cron>>

\* ListFinish with a fault: a status list_folders does not know gives an
\* empty result
ListFinish_EmptyOnUnknown ==
    /\ cmd = "list" /\ pc = "list_loop" /\ idx = Len(LoadMainIndex)
    /\ IF ListFoldersRaises(args.status)
       THEN Exit("no_match") /\ UNCHANGED all_links
       ELSE LET found == ListFolders(links, args.status)
            IN /\ all_links' = [i \in 1..Len(found) |-> found[i][1]]
               /\ Exit(IF Len(found) = 0 THEN "no_match" ELSE "returned")
    /\ UNCHANGED <<index, sql_index, html_index, staged, index0, new_links,
                   folders, sources, cmd, args, links, probed, fixed, cant_fix,
                   to_keep, idx, mpos, cur, started, returned, writes, removed,
                   calls, outdir, ncmds, report,
                   cron>>

\* lines 687-702: the generator is exhausted; list_folders, the printout, and
\* SystemExit(not folders)
ListFinish ==
    /\ cmd = "list" /\ pc = "list_loop" /\ idx = Len(LoadMainIndex)
    /\ IF ListFoldersRaises(args.status)
       THEN Exit("value_error") /\ UNCHANGED all_links
       ELSE LET found == ListFolders(links, args.status)
            IN /\ all_links' = [i \in 1..Len(found) |-> found[i][1]]
               /\ Exit(IF Len(found) = 0 THEN "no_match" ELSE "returned")
    /\ UNCHANGED <<index, sql_index, html_index, staged, index0, new_links,
                   folders, sources, cmd, args, links, probed, fixed, cant_fix,
                   to_keep, idx, mpos, cur, started, returned, writes, removed,
                   calls, outdir, ncmds, report,
                   cron>>

NextList ==
    \/ ListBegin
    \/ ListStep
    \/ ListFinish

SpecList == Init /\ [][NextList]_vars

----------------------------------------------------------------------------
(* init (lines 224-365) *)

RECURSIVE DictUpdate(_, _)
\* a dict keyed by URL, as the sequence of its values in insertion order,
\* after the links ls were stored into it one after the other
DictUpdate(d, ls) ==
    IF ls = <<>> THEN d
    ELSE LET l == Head(ls)
             at == {i \in 1..Len(d) : d[i].url = l.url}
         IN DictUpdate(IF at = {} THEN Append(d, l)
                       ELSE [d EXCEPT ![CHOOSE i \in at : TRUE] = l],
                       Tail(ls))

\* {link.url: link for link in ls if link.url not in d}
OrphanedLinks(d, ls) ==
    DictUpdate(<<>>, SelectSeq(ls, LAMBDA l : \A i \in 1..Len(d) : d[i].url # l.url))

\* the readers init collects links from
ParseJsonMainIndex == index
ParseSqlMainIndex == SeqOfSetDesc(sql_index)
ParseJsonLinksDetails(fs) ==
    LET names == SeqOfSetAsc({n \in DOMAIN fs : fs[n].meta # None})
    IN [i \in 1..Len(names) |-> fs[names[i]].meta[1]]

RECURSIVE FixFolders(_, _, _, _)
\* fix_invalid_folder_locations over the scanned folder names: a folder whose
\* metadata names another timestamp is renamed to it, unless a folder of
\* that name exists
FixFolders(names, fs, fx, cf) ==
    IF names = <<>> THEN [folders |-> fs, fixed |-> fx, cant_fix |-> cf]
    ELSE LET n == Head(names)
             rest == Tail(names)
         IN IF fs[n].meta = None \/ fs[n].meta[1].timestamp = n
            THEN FixFolders(rest, fs, fx, cf)
            ELSE LET dest == fs[n].meta[1].timestamp
                 IN IF dest \in DOMAIN fs
                    THEN FixFolders(rest, fs, fx, cf \cup {n})
                    ELSE FixFolders(rest,
                             [m \in ((DOMAIN fs) \ {n}) \cup {dest} |->
                                 IF m = dest THEN fs[n] ELSE fs[m]],
                             fx \cup {dest}, cf)

FixInvalidFolderLocations == FixFolders(SeqOfSetAsc(DOMAIN folders), folders, {}, {})

\* InitBegin with a fault: the folder structure is built before the check of
\* the directory
InitBegin_BuildsFirst ==
    /\ cmd = "none"
    /\ cmd' = "init"
    /\ args' = NoArgs
    /\ LET is_empty == ~outdir.foreign /\ "config" \notin outdir.made
           existing_index == "index" \in outdir.made
       IN IF ~is_empty /\ ~existing_index
          THEN /\ outdir' = [outdir EXCEPT
                                !.made = @ \cup {"sources", "archive", "logs", "config", "sql"}]
               /\ Exit("not_empty") /\ UNCHANGED all_links
          ELSE /\ outdir' = [outdir EXCEPT
                                !.made = @ \cup {"sources", "archive", "logs", "config", "sql"}]
               /\ all_links' = IF existing_index THEN DictUpdate(<<>>, LoadMainIndex)
                               ELSE <<>>
               /\ pc' = "init_fix"
               /\ outcome' = outcome
    /\ UNCHANGED <<index, sql_index, html_index, staged, ncmds, index0,
                   new_links, folders, sources, links, probed, fixed, cant_fix,
                   to_keep, idx, mpos, cur, started, returned, writes, removed,
                   calls, report,
                   cron>>

\* lines 224-296: the check of the directory, the folder structure, the
\* config file, the SQL index, and the links of the main index; an entry
\* outside ALLOWED_IN_OUTPUT_DIR (lines 104-119) is a foreign one or the
\* config file, which the set does not name
InitBegin ==
    /\ cmd = "none"
    /\ cmd' = "init"
    /\ args' = NoArgs
    /\ LET is_empty == ~outdir.foreign /\ "config" \notin outdir.made
           existing_index == "index" \in outdir.made
       IN IF ~is_empty /\ ~existing_index
          THEN Exit("not_empty") /\ UNCHANGED <<outdir, all_links>>
          ELSE /\ outdir' = [outdir EXCEPT
                                !.made = @ \cup {"sources", "archive", "logs", "config", "sql"}]
               /\ all_links' = IF existing_index THEN DictUpdate(<<>>, LoadMainIndex)
                               ELSE <<>>
               /\ pc' = "init_fix"
               /\ outcome' = outcome
    /\ UNCHANGED <<index, sql_index, html_index, staged, ncmds, index0,
                   new_links, folders, sources, links, probed, fixed, cant_fix,
                   to_keep, idx, mpos, cur, started, returned, writes, removed,
                   calls, report,
                   cron>>

\* InitFix with a fault: a folder is moved to the timestamp of its metadata
\* even when a folder of that name exists
InitFix_Overwrites ==
    /\ cmd = "init" /\ pc = "init_fix"
    /\ LET wrong == {n \in DOMAIN folders :
                        /\ folders[n].meta # None
                        /\ folders[n].meta[1].timestamp # n}
           dests == {folders[n].meta[1].timestamp : n \in wrong}
       IN /\ folders' = [m \in ((DOMAIN folders) \ wrong) \cup dests |->
                            IF m \in dests
                            THEN folders[CHOOSE n \in wrong :
                                            folders[n].meta[1].timestamp = m]
                            ELSE folders[m]]
          /\ fixed' = dests
          /\ cant_fix' = {}
    /\ pc' = "init_collect"
    /\ UNCHANGED <<index, sql_index, html_index, staged, outdir, ncmds, index0,
                   all_links, new_links, sources, cmd, args, links, probed,
                   to_keep, idx, mpos, cur, started, returned, writes, removed,
                   calls, outcome, report,
                   cron>>

\* lines 298-303: folders that do not match their link timestamps
InitFix ==
    /\ cmd = "init" /\ pc = "init_fix"
    /\ LET r == FixInvalidFolderLocations
       IN /\ folders' = r.folders
          /\ fixed' = r.fixed
          /\ cant_fix' = r.cant_fix
    /\ pc' = "init_collect"
    /\ UNCHANGED <<index, sql_index, html_index, staged, outdir, ncmds, index0,
                   all_links, new_links, sources, cmd, args, links, probed,
                   to_keep, idx, mpos, cur, started, returned, writes, removed,
                   calls, outcome, report,
                   cron>>

\* InitCollect with a fault: the links of the link folders are not collected
InitCollect_SkipsFolders ==
    /\ cmd = "init" /\ pc = "init_collect"
    /\ LET with_json == DictUpdate(all_links, OrphanedLinks(all_links, ParseJsonMainIndex))
           with_sql == DictUpdate(with_json, OrphanedLinks(with_json, ParseSqlMainIndex))
       IN /\ all_links' = with_sql
          /\ new_links' = <<>>
          /\ WriteMainIndex(with_sql)
    /\ outdir' = [outdir EXCEPT !.made = @ \cup {"index"}]
    /\ Exit("returned")
    /\ UNCHANGED <<staged, ncmds, index0, folders, sources, cmd, args, links, probed,
                   fixed, cant_fix, to_keep, idx, mpos, cur, started, returned,
                   removed, calls, report,
                   cron>>

\* InitCollect with a fault: the links of each source are stored whether
\* all_links holds their URL or not
InitCollect_LaterWins ==
    /\ cmd = "init" /\ pc = "init_collect"
    /\ LET with_json == DictUpdate(all_links, ParseJsonMainIndex)
           with_sql == DictUpdate(with_json, ParseSqlMainIndex)
           with_dirs == DictUpdate(with_sql, ParseJsonLinksDetails(folders))
       IN /\ all_links' = with_dirs
          /\ new_links' = OrphanedLinks(with_sql, ParseJsonLinksDetails(folders))
          /\ WriteMainIndex(with_dirs)
    /\ outdir' = [outdir EXCEPT !.made = @ \cup {"index"}]
    /\ Exit("returned")
    /\ UNCHANGED <<staged, ncmds, index0, folders, sources, cmd, args, links,
                   probed, fixed, cant_fix, to_keep, idx, mpos, cur, started,
                   returned, removed, calls, report,
                   cron>>

\* lines 305-349: the links of the JSON index, the SQL index and the link
\* folders that all_links does not hold yet, by URL, are added in that order;
\* the invalid folders are only reported; all_links is written as the index
InitCollect ==
    /\ cmd = "init" /\ pc = "init_collect"
    /\ LET with_json == DictUpdate(all_links, OrphanedLinks(all_links, ParseJsonMainIndex))
           with_sql == DictUpdate(with_json, OrphanedLinks(with_json, ParseSqlMainIndex))
           with_dirs == DictUpdate(with_sql,
                                   OrphanedLinks(with_sql, ParseJsonLinksDetails(folders)))
       IN /\ all_links' = with_dirs
          /\ new_links' = OrphanedLinks(with_sql, ParseJsonLinksDetails(folders))
          /\ WriteMainIndex(with_dirs)
    /\ outdir' = [outdir EXCEPT !.made = @ \cup {"index"}]
    /\ Exit("returned")
    /\ UNCHANGED <<staged, ncmds, index0, folders, sources, cmd, args, links,
                   probed, fixed, cant_fix, to_keep, idx, mpos, cur, started,
                   returned, removed, calls, report,
                   cron>>

----------------------------------------------------------------------------
(* info (lines 367-448): the counts it prints *)

NamesOf(pairs) == {pairs[i][1] : i \in 1..Len(pairs)}

\* Info with a fault: the invalid count is the sum of the four counts below it
Info_InvalidSummed ==
    /\ cmd = "none"
    /\ cmd' = "info"
    /\ args' = NoArgs
    /\ LET ls == LoadMainIndex
           duplicate == GetDuplicateFolders(ls)
           orphaned == GetOrphanedFolders(ls)
           corrupted == GetCorruptedFolders(ls)
           unrecognized == GetUnrecognizedFolders(ls)
       IN report' =
            [json         |-> Len(ls),
             sql          |-> Cardinality(sql_index),
             html         |-> Len(html_index),
             details      |-> Len(ParseJsonLinksDetails(folders)),
             indexed      |-> Len(GetIndexedFolders(ls)),
             archived     |-> Len(GetArchivedFolders(ls)),
             unarchived   |-> Len(GetUnarchivedFolders(ls)),
             present      |-> Len(GetPresentFolders(ls)),
             valid        |-> Len(GetValidFolders(ls)),
             invalid      |-> Len(duplicate) + Len(orphaned) + Len(corrupted) +
                              Len(unrecognized),
             duplicate    |-> Len(duplicate),
             orphaned     |-> Len(orphaned),
             corrupted    |-> Len(corrupted),
             unrecognized |-> Len(unrecognized)]
    /\ Exit("returned")
    /\ UNCHANGED <<index, sql_index, html_index, staged, outdir, ncmds, index0,
                   all_links, new_links, folders, sources, links, probed, fixed,
                   cant_fix, to_keep, idx, mpos, cur, started, returned, writes,
                   removed, calls,
                   cron>>

\* lines 377-431: the counts of the index representations and of the folders
\* in each state; the invalid count is the size of the merged dict (line 426)
Info ==
    /\ cmd = "none"
    /\ cmd' = "info"
    /\ args' = NoArgs
    /\ LET ls == LoadMainIndex
           duplicate == GetDuplicateFolders(ls)
           orphaned == GetOrphanedFolders(ls)
           corrupted == GetCorruptedFolders(ls)
           unrecognized == GetUnrecognizedFolders(ls)
       IN report' =
            [json         |-> Len(ls),
             sql          |-> Cardinality(sql_index),
             html         |-> Len(html_index),
             details      |-> Len(ParseJsonLinksDetails(folders)),
             indexed      |-> Len(GetIndexedFolders(ls)),
             archived     |-> Len(GetArchivedFolders(ls)),
             unarchived   |-> Len(GetUnarchivedFolders(ls)),
             present      |-> Len(GetPresentFolders(ls)),
             valid        |-> Len(GetValidFolders(ls)),
             invalid      |-> Cardinality(NamesOf(duplicate) \cup NamesOf(orphaned) \cup
                                          NamesOf(corrupted) \cup NamesOf(unrecognized)),
             duplicate    |-> Len(duplicate),
             orphaned     |-> Len(orphaned),
             corrupted    |-> Len(corrupted),
             unrecognized |-> Len(unrecognized)]
    /\ Exit("returned")
    /\ UNCHANGED <<index, sql_index, html_index, staged, outdir, ncmds, index0,
                   all_links, new_links, folders, sources, links, probed, fixed,
                   cant_fix, to_keep, idx, mpos, cur, started, returned, writes,
                   removed, calls,
                   cron>>

----------------------------------------------------------------------------
(* Snapshots of index and folders for the folder classifier and for init:    *)
(* each of the first MaxLinks folder names is absent or holds a folder of    *)
(* one of these kinds; the index holds any subset of the first MaxLinks links *)

FolderKinds == {"own", "done", "copy", "twin", "moved", "stray", "empty"}

\* the name a copied folder was copied from
Neighbour(n) == (n % MaxLinks) + 1

KindFolder(n, kind) ==
    CASE kind = "own"   -> FolderOf(MkLink(n, EmptyHistory), {})
      [] kind = "done"  -> FolderOf(MkLink(n, DoneHistory), MethodSet)
         \* a copy of the neighbour's folder
      [] kind = "copy"  -> FolderOf(MkLink(Neighbour(n), EmptyHistory), {})
         \* the neighbour's URL under this folder's own timestamp
      [] kind = "twin"  -> FolderOf([MkLink(Neighbour(n), EmptyHistory)
                                        EXCEPT !.timestamp = n], {})
         \* the folder's own link, stamped with a time no index link has
      [] kind = "moved" -> FolderOf([MkLink(n, EmptyHistory)
                                        EXCEPT !.timestamp = MaxLinks + 1], {})
         \* extractor outputs without a metadata file
      [] kind = "stray" -> [meta |-> None, outputs |-> MethodSet]
      [] kind = "empty" -> [meta |-> None, outputs |-> {}]

FolderSnapshot(S, N, kinds) ==
        /\ index = SeqOfSetDesc({MkLink(k, IF k \in N /\ kinds[k] = "done"
                                           THEN DoneHistory ELSE EmptyHistory) : k \in S})
        /\ index0 = index
        /\ folders = [n \in N |-> KindFolder(n, kinds[n])]
        /\ sources = 0
        /\ cmd = "none"
        /\ pc = "idle"
        /\ args = NoArgs
        /\ NothingWritten
        /\ all_links = <<>>
        /\ links = <<>>
        /\ to_keep = <<>>
        /\ idx = 0
        /\ mpos = 0
        /\ cur = None
        /\ started = <<>>
        /\ returned = <<>>
        /\ writes = <<>>
        /\ removed = {}
        /\ calls = <<>>
        /\ outcome = "running"

InitFolders ==
    \E S \in SUBSET (1..MaxLinks) :
    \E N \in SUBSET (1..MaxLinks) :
    \E kinds \in [N -> FolderKinds] : FolderSnapshot(S, N, kinds)

NextFolders ==
    \/ Info
    \/ InitBegin
    \/ InitFix
    \/ InitCollect

SpecFolders == InitFolders /\ [][NextFolders]_vars

----------------------------------------------------------------------------
(* Commands run one after the other on the same collection: init, add,       *)
(* update and remove, each to its end, the index writes only (index_only)    *)

\* remove one link by its exact URL, with or without its folder
OpsRemoveArgs ==
    [filter_str : {<< UrlOf(1) >>, << UrlOf(2) >>}, filter_patterns : {None},
     filter_type : {"exact"}, after : {None}, before : {None}, delete : BOOLEAN]

\* import a URL the index never held, or one it may hold, stamped with a
\* time of the source's own
OpsAddArgs ==
    [import_str : {None},
     import_path : {<< Incoming(MaxLinks + 1, 2) >>, << Incoming(1, 2) >>},
     update_all : {FALSE}, index_only : {TRUE}]

OpsUpdateArgs ==
    [filter : {[filter_patterns |-> None, filter_type |-> "none",
                after |-> None, before |-> None]},
     status : {"indexed"}, resume : {None},
     only_new : {FALSE}, index_only : {TRUE}, overwrite : {FALSE}]

RemoveAgain == RemoveCalled(OpsRemoveArgs)
AddAgain == AddCalled(OpsAddArgs)
UpdateAgain == UpdateCalled(OpsUpdateArgs)

\* the command has ended; the next one finds the collection as it was left
NextCommand ==
    /\ pc = "done"
    /\ ncmds + 1 < MaxCmds
    /\ ncmds' = ncmds + 1
    /\ cmd' = "none"
    /\ pc' = "idle"
    /\ args' = NoArgs
    /\ index0' = index
    /\ all_links' = <<>>
    /\ new_links' = <<>>
    /\ links' = <<>>
    /\ to_keep' = <<>>
    /\ probed' = <<>>
    /\ fixed' = {}
    /\ cant_fix' = {}
    /\ report' = <<>>
    /\ idx' = 0
    /\ mpos' = 0
    /\ cur' = None
    /\ started' = <<>>
    /\ returned' = <<>>
    /\ writes' = <<>>
    /\ removed' = {}
    /\ calls' = <<>>
    /\ outcome' = "running"
    /\ UNCHANGED <<index, sql_index, html_index, staged, outdir, folders, sources,
                   cron>>

NextOps ==
    \/ InitBegin
    \/ InitFix
    \/ InitCollect
    \/ AddAgain
    \/ AddIndex
    \/ UpdateAgain
    \/ UpdateFilter
    \/ RemoveAgain
    \/ RemoveLoop
    \/ RemoveWrite
    \/ NextCommand

SpecOps == Init /\ [][NextOps]_vars

----------------------------------------------------------------------------
(* Every command once, on a snapshot with folders of every kind: the index   *)
(* holds all of the first MaxLinks links, or all but the last                *)

InitFrame ==
    \E S \in {1..MaxLinks, 1..(MaxLinks - 1)} :
    \E N \in SUBSET (1..MaxLinks) :
    \E kinds \in [N -> FolderKinds] : FolderSnapshot(S, N, kinds)

\* list the invalid folders of all links
FrameListArgs ==
    [filter_patterns_str : {None}, filter_patterns : {None}, filter_type : {"exact"},
     after : {None}, before : {None}, status : {"invalid"}]

ListFrame == ListCalled(FrameListArgs)

NextFrame ==
    \/ InitBegin
    \/ InitFix
    \/ InitCollect
    \/ Info
    \/ ListFrame
    \/ ListStep
    \/ ListFinish
    \/ AddAgain
    \/ AddIndex
    \/ UpdateAgain
    \/ UpdateFilter
    \/ RemoveAgain
    \/ RemoveLoop
    \/ RemoveWrite

SpecFrame == InitFrame /\ [][NextFrame]_vars

----------------------------------------------------------------------------
(* write_main_index step by step, as remove calls it (line 583): for each    *)
(* representation in turn the content is written to a temporary path, which  *)
(* is then renamed into place                                                *)

Representations == <<"json", "sql", "html">>

Render(r, ls) ==
    CASE r = "json" -> ls
      [] r = "sql"  -> SqlOf(ls)
      [] r = "html" -> HtmlOf(ls)

\* the representation the writer works on next
NextRep == Representations[Cardinality(staged.renamed) + 1]

\* the content is written to the temporary path of the next representation
WriteStage ==
    /\ cmd = "remove" /\ pc = "remove_write"
    /\ Cardinality(staged.renamed) < Len(Representations)
    /\ NextRep \notin DOMAIN staged.tmp
    /\ staged' = [staged EXCEPT !.tmp = @ @@ (NextRep :> Render(NextRep, to_keep))]
    /\ UNCHANGED <<index, sql_index, html_index, outdir, ncmds, report, index0,
                   all_links, new_links, folders, sources, cmd, pc, args, links,
                   probed, fixed, cant_fix, to_keep, idx, mpos, cur, started,
                   returned, writes, removed, calls, outcome,
                   cron>>

\* WriteRename with a fault: the structured index is written in place, and
\* the step ends with its first record only
WriteRename_InPlace ==
    /\ cmd = "remove" /\ pc = "remove_write"
    /\ Cardinality(staged.renamed) < Len(Representations)
    /\ NextRep \in DOMAIN staged.tmp
    /\ LET r == NextRep
           last == Cardinality(staged.renamed) + 1 = Len(Representations)
       IN /\ index' = IF r = "json" THEN (IF staged.tmp[r] = <<>> THEN <<>> ELSE Prefix(staged.tmp[r], 1)) ELSE index
          /\ sql_index' = IF r = "sql" THEN staged.tmp[r] ELSE sql_index
          /\ html_index' = IF r = "html" THEN staged.tmp[r] ELSE html_index
          /\ IF last
             THEN /\ staged' = NoWrite
                  /\ writes' = Append(writes, to_keep)
                  /\ Exit("returned")
             ELSE /\ staged' = [tmp |-> [x \in (DOMAIN staged.tmp) \ {r} |-> staged.tmp[x]],
                                renamed |-> staged.renamed \cup {r}]
                  /\ UNCHANGED <<writes, pc, outcome>>
    /\ UNCHANGED <<outdir, ncmds, report, index0, all_links, new_links, folders,
                   sources, cmd, args, links, probed, fixed, cant_fix, to_keep, idx,
                   mpos, cur, started, returned, removed, calls,
                   cron>>

\* the temporary file is renamed into place in one step; after the last
\* representation write_main_index returns, and remove with it
WriteRename ==
    /\ cmd = "remove" /\ pc = "remove_write"
    /\ Cardinality(staged.renamed) < Len(Representations)
    /\ NextRep \in DOMAIN staged.tmp
    /\ LET r == NextRep
           last == Cardinality(staged.renamed) + 1 = Len(Representations)
       IN /\ index' = IF r = "json" THEN staged.tmp[r] ELSE index
          /\ sql_index' = IF r = "sql" THEN staged.tmp[r] ELSE sql_index
          /\ html_index' = IF r = "html" THEN staged.tmp[r] ELSE html_index
          /\ IF last
             THEN /\ staged' = NoWrite
                  /\ writes' = Append(writes, to_keep)
                  /\ Exit("returned")
             ELSE /\ staged' = [tmp |-> [x \in (DOMAIN staged.tmp) \ {r} |-> staged.tmp[x]],
                                renamed |-> staged.renamed \cup {r}]
                  /\ UNCHANGED <<writes, pc, outcome>>
    /\ UNCHANGED <<outdir, ncmds, report, index0, all_links, new_links, folders,
                   sources, cmd, args, links, probed, fixed, cant_fix, to_keep, idx,
                   mpos, cur, started, returned, removed, calls,
                   cron>>

\* the process fails or is killed at any point of the write; the files stay
\* as they are
WriteCrash ==
    /\ cmd = "remove" /\ pc = "remove_write"
    /\ Exit("crashed")
    /\ UNCHANGED <<index, sql_index, html_index, staged, outdir, ncmds, report,
                   index0, all_links, new_links, folders, sources, cmd, args, links,
                   probed, fixed, cant_fix, to_keep, idx, mpos, cur, started,
                   returned, writes, removed, calls,
                   cron>>

NextWrite ==
    \/ RemoveAgain
    \/ RemoveLoop
    \/ WriteStage
    \/ WriteRename
    \/ WriteCrash

SpecWrite == Init /\ [][NextWrite]_vars

----------------------------------------------------------------------------
(* init after a remove whose index write was killed: the representations     *)
(* and the folders no longer hold the same links                             *)

\* every link is indexed, and every folder name holds a folder of some kind
InitRecover ==
    \E kinds \in [1..MaxLinks -> FolderKinds] :
        FolderSnapshot(1..MaxLinks, 1..MaxLinks, kinds)

\* remove the first link, with or without its folder
RecoverRemoveArgs ==
    [filter_str : {<< UrlOf(1) >>}, filter_patterns : {None},
     filter_type : {"exact"}, after : {None}, before : {None}, delete : BOOLEAN]

RemoveFirst == RemoveCalled(RecoverRemoveArgs)

\* the next command is run on what the killed one left
NextAfterCrash == outcome = "crashed" /\ NextCommand

NextRecover ==
    \/ RemoveFirst
    \/ RemoveLoop
    \/ WriteStage
    \/ WriteRename
    \/ WriteCrash
    \/ NextAfterCrash
    \/ InitBegin
    \/ InitFix
    \/ InitCollect

SpecRecover == InitRecover /\ [][NextRecover]_vars

----------------------------------------------------------------------------
(* list with every status, on snapshots in which the last link is not        *)
(* indexed and every folder name holds a folder of some kind                 *)

InitStatus ==
    \E kinds \in [1..MaxLinks -> FolderKinds] :
        FolderSnapshot(1..(MaxLinks - 1), 1..MaxLinks, kinds)

\* every status list_folders knows, one it does not, and none
StatusListArgs ==
    [filter_patterns_str : {None}, filter_patterns : {None}, filter_type : {"exact"},
     after : {None}, before : {None}, status : FolderStatuses \cup {"bogus", "none"}]

ListStatus == ListCalled(StatusListArgs)

NextStatus ==
    \/ ListStatus
    \/ ListStep
    \/ ListFinish

SpecStatus == InitStatus /\ [][NextStatus]_vars

----------------------------------------------------------------------------
(* init on directories of every content: any of the entries init makes, with *)
(* or without entries of another origin                                      *)

InitDirs ==
    \E made \in SUBSET MadeByInit : \E foreign \in BOOLEAN :
    \E S \in SUBSET (1..MaxLinks) :
        \* links are held by an index, its folders by the archive folder
        /\ S # {} => {"index", "sql", "archive"} \subseteq made
        /\ index = InitIndexOf(S, {})
        /\ index0 = index
        /\ folders = [k \in S |-> FolderOf(MkLink(k, EmptyHistory), {})]
        /\ sql_index = SqlOf(index)
        /\ html_index = HtmlOf(index)
        /\ outdir = [made |-> made, foreign |-> foreign]
        /\ staged = NoWrite
        /\ cron = NoCron
        /\ ncmds = 0
        /\ report = <<>>
        /\ new_links = <<>>
        /\ probed = <<>>
        /\ fixed = {}
        /\ cant_fix = {}
        /\ sources = 0
        /\ cmd = "none"
        /\ pc = "idle"
        /\ args = NoArgs
        /\ all_links = <<>>
        /\ links = <<>>
        /\ to_keep = <<>>
        /\ idx = 0
        /\ mpos = 0
        /\ cur = None
        /\ started = <<>>
        /\ returned = <<>>
        /\ writes = <<>>
        /\ removed = {}
        /\ calls = <<>>
        /\ outcome = "running"

NextDirs ==
    \/ InitBegin
    \/ InitFix
    \/ InitCollect

SpecDirs == InitDirs /\ [][NextDirs]_vars

----------------------------------------------------------------------------
(* schedule (lines 858-958) and dedupe_jobs (lines 1011-1025) over the        *)
(* crontab of the user. A job is its schedule (slices), command and comment, *)
(* enabled or not.                                                           *)

CRON_COMMENT == "archivebox_schedule"

CronJob(slices, command, comment, enabled) ==
    [slices |-> slices, command |-> command, comment |-> comment, enabled |-> enabled]

\* the crontabs a user may have: up to MaxJobs jobs, duplicates included,
\* each a job schedule made or a job of the user's own (a backup, enabled or
\* not)
Crontabs ==
    LET own == {CronJob(sl, "archivebox update", CRON_COMMENT, TRUE) :
                   sl \in {"@hourly", "@daily"}}
        foreign == {CronJob("@daily", "backup", "nightly backup", e) : e \in BOOLEAN}
    IN UNION {[1..n -> own \cup foreign] : n \in 0..MaxJobs}

\* dedupe_jobs: every job of the crontab is removed, and for each distinct
\* (schedule, command) pair one job is made anew, with the comment of
\* schedule, and enabled. The pairs are kept in a set, so the order of the
\* new jobs is any; the operator gives every crontab that can result.
DedupeJobs(jobs) ==
    LET deduped == {<<jobs[i].slices, jobs[i].command>> : i \in 1..Len(jobs)}
        made == {CronJob(d[1], d[2], CRON_COMMENT, TRUE) : d \in deduped}
    IN {q \in [1..Cardinality(made) -> made] : Range(q) = made}

\* schedule is driven with every combination of its flags but foreground,
\* which runs the scheduler for ever
ScheduleArgs ==
    [run_all : BOOLEAN, show : BOOLEAN, clear : BOOLEAN,
     every : {None, Some("day"), Some("fortnight")},
     import_path : {None, Some("feed")}]

\* lines 871-874: the crontab of the user is read and deduplicated
ScheduleBegin ==
    /\ cmd = "none"
    /\ cmd' = "schedule"
    /\ \E a \in ScheduleArgs : args' = a
    /\ \E q \in DedupeJobs(cron.tab) :
          cron' = [cron EXCEPT !.mem = q, !.deduped = q]
    /\ pc' = "schedule_act"
    /\ UNCHANGED <<index, sql_index, html_index, staged, outdir, ncmds, report,
                   index0, all_links, new_links, folders, sources, links, probed,
                   fixed, cant_fix, to_keep, idx, mpos, cur, started, returned,
                   writes, removed, calls, outcome>>

\* the job lines 915-934 add for `every`
NewJob == CronJob(IF args.every = Some("day") THEN "@daily" ELSE "",
                  IF args.import_path # None THEN "archivebox add" ELSE "archivebox update",
                  CRON_COMMENT, TRUE)

\* lines 875-958: the branch the flags select
ScheduleAct ==
    /\ cmd = "schedule" /\ pc = "schedule_act"
    /\ IF args.run_all
       THEN \* lines 877-888: the jobs are run, the crontab stays
            /\ Exit(IF args.import_path # None \/ cron.mem = <<>>
                    THEN "no_jobs" ELSE "returned")
            /\ UNCHANGED cron
       ELSE IF args.show
       THEN \* lines 901-908
            Exit("returned") /\ UNCHANGED cron
       ELSE IF args.clear
       THEN \* lines 910-913: remove_all(comment=CRON_COMMENT), then write
            /\ LET left == SelectSeq(cron.mem, LAMBDA j : j.comment # CRON_COMMENT)
               IN cron' = [cron EXCEPT !.mem = left, !.tab = left]
            /\ Exit("returned")
       ELSE IF args.every # None
       THEN IF args.every # Some("day")
            THEN \* lines 935-941: the new job is made but never written
                 /\ cron' = [cron EXCEPT !.mem = Append(@, NewJob)]
                 /\ Exit("bad_period")
            ELSE \* lines 943-944: dedupe_jobs again, then write
                 /\ \E q \in DedupeJobs(Append(cron.mem, NewJob)) :
                       cron' = [cron EXCEPT !.mem = q, !.tab = q]
                 /\ Exit("returned")
       ELSE Exit("returned") /\ UNCHANGED cron
    /\ UNCHANGED <<index, sql_index, html_index, staged, outdir, ncmds, report,
                   index0, all_links, new_links, folders, sources, cmd, args,
                   links, probed, fixed, cant_fix, to_keep, idx, mpos, cur,
                   started, returned, writes, removed, calls>>

\* an initialised collection without links, and any crontab
InitCron ==
    \E tab \in Crontabs :
        /\ cron = [tab |-> tab, mem |-> <<>>, before |-> tab, deduped |-> <<>>]
        /\ index = <<>>
        /\ index0 = index
        /\ folders = <<>>
        /\ sql_index = SqlOf(index)
        /\ html_index = HtmlOf(index)
        /\ outdir = [made |-> MadeByInit, foreign |-> FALSE]
        /\ staged = NoWrite
        /\ ncmds = 0
        /\ report = <<>>
        /\ new_links = <<>>
        /\ probed = <<>>
        /\ fixed = {}
        /\ cant_fix = {}
        /\ sources = 0
        /\ cmd = "none"
        /\ pc = "idle"
        /\ args = NoArgs
        /\ all_links = <<>>
        /\ links = <<>>
        /\ to_keep = <<>>
        /\ idx = 0
        /\ mpos = 0
        /\ cur = None
        /\ started = <<>>
        /\ returned = <<>>
        /\ writes = <<>>
        /\ removed = {}
        /\ calls = <<>>
        /\ outcome = "running"

NextCron ==
    \/ ScheduleBegin
    \/ ScheduleAct

SpecCron == InitCron /\ [][NextCron]_vars

----------------------------------------------------------------------------
(* Properties *)

\* the links list_links yields for the filter the running command was given
Selected(f) == ListLinks(index0, f.filter_patterns, f.filter_type, f.after, f.before)

\* C1: remove takes out of the index exactly the links its filter selects
\* (the links list_links yields); every other link is in the index it writes.
C1_RemoveTakesExactlySelected ==
    (cmd = "remove" /\ outcome = "returned") =>
        /\ Range(index) = Range(index0) \ Range(Selected(args))
        /\ writes = <<index>>

Archiving == cmd \in {"add", "update"}

\* C2: archive_link is called on the links of the batch in the order of the
\* sequence, one at a time: the calls started so far are a prefix of the batch,
\* the calls returned so far are all of them but at most the last, and no link
\* is started twice.
C2_StrictOrderOneAtATime ==
    Archiving =>
        /\ Len(started) <= Len(Batch)
        /\ started = Prefix(Timestamps(Batch), Len(started))
        /\ Len(returned) <= Len(started)
        /\ returned = Prefix(started, Len(returned))
        /\ Len(started) - Len(returned) = (IF mpos > 0 THEN 1 ELSE 0)
        /\ NoDuplicates(started)

\* C2 witness: two links have returned and the third is inside archive_link
C2_Witness ==
    /\ Archiving /\ outcome = "running"
    /\ Len(returned) = 2 /\ Len(started) = 3 /\ mpos > 1

\* the statuses this run's extractor calls produced for method m of link ts
RECURSIVE StatusesOf(_, _, _)
StatusesOf(q, ts, m) ==
    IF q = <<>> THEN <<>>
    ELSE LET rest == StatusesOf(Tail(q), ts, m)
         IN IF Head(q)[1] = ts /\ Head(q)[2] = m THEN <<Head(q)[3]>> \o rest ELSE rest

\* the history method m of link ts had when the command started
PriorHistory(ts, m) ==
    LET hit == {i \in 1..Len(index0) : index0[i].timestamp = ts}
    IN IF hit = {} THEN <<>> ELSE index0[CHOOSE i \in hit : TRUE].history[m]

\* the folder of ts holds the link's history including this run's calls
HistoryFlushed(ts) ==
    /\ ts \in DOMAIN folders
    /\ folders[ts].meta # None
    /\ \A m \in MethodSet :
          folders[ts].meta[1].history[m] = PriorHistory(ts, m) \o StatusesOf(calls, ts, m)

\* C3: after an interruption of add or update no index write follows: the
\* index is the one the pre-archiving write left, and the history of every
\* link whose archive_link call returned is in its folder's metadata.
C3_InterruptLeavesIndex ==
    outcome = "interrupted" =>
        /\ Len(writes) = 1
        /\ index = writes[1]
        /\ \A i \in 1..Len(returned) : HistoryFlushed(returned[i])

\* C3 witness: interrupted between links after a link completed with new
\* history, which the index on disk does not hold
C3_Witness ==
    /\ outcome = "interrupted" /\ mpos = 0
    /\ Len(returned) >= 1 /\ calls # <<>>
    /\ index # LoadMainIndex

ResumeSet(ls, resume) ==
    {ls[i].timestamp : i \in {j \in 1..Len(ls) :
                                IsNone(resume) \/ ls[j].timestamp >= resume[1]}}

\* C5: update processes no selected link whose timestamp is less than resume
\* and every selected link whose timestamp is not less than it; all selected
\* links when no resume is given.
C5_ResumeProcessesFromTimestamp ==
    (cmd = "update" /\ outcome = "returned" /\ ~args.index_only) =>
        Range(returned) = ResumeSet(all_links, args.resume)

\* method m of link ts is skipped by this run: it already has a successful
\* output and overwrite is off
Skipped(ts, m) == ~Overwrite /\ "succeeded" \in Range(PriorHistory(ts, m))

C6_Inv ==
    Archiving =>
        \* the loop can always go on to the next method, the next link or the final write
        /\ pc = "archiving" =>
              ENABLED (ArchiveLinkCall \/ RunMethod \/ ArchiveLinkReturn \/ ArchiveFinish)
        \* every method of a returned link was invoked, and its result, failed
        \* ones included, is in the link's history
        /\ \A i \in 1..Len(returned) :
              /\ HistoryFlushed(returned[i])
              /\ \A m \in MethodSet :
                    Len(StatusesOf(calls, returned[i], m)) =
                        (IF Skipped(returned[i], m) THEN 0 ELSE 1)
        \* a run that returns after archiving processed the whole batch and
        \* wrote the index a second time, with the new history
        /\ (outcome = "returned" /\ ~args.index_only) =>
              /\ returned = Timestamps(Batch)
              /\ Len(writes) = 2
              /\ index = LoadMainIndex

C6_FailedStep ==
    (Len(calls') = Len(calls) + 1 /\ calls'[Len(calls')][3] = "failed") =>
        /\ pc' = "archiving" /\ outcome' = "running"
        /\ mpos' = mpos + 1

\* C6: a failed extractor method does not abort the run: the failure is
\* recorded in the link's history, the remaining methods of the link and the
\* later links of the batch are still processed, and the run gets to its
\* final index write.
C6_FailureNeverAborts == []C6_Inv /\ [][C6_FailedStep]_vars

\* C6 witness: the first method of the first link failed, and the run
\* returned after three links and two index writes
C6_Witness ==
    /\ Archiving /\ outcome = "returned" /\ Len(writes) = 2
    /\ Len(returned) = 3
    /\ calls # <<>> /\ calls[1][3] = "failed" /\ calls[1][1] = returned[1]
    /\ Len(calls) > 2

\* C7: an interrupted run exits with a non-zero status that differs from the
\* status of a finished run and from the status of a failed run.
C7_InterruptExitStatusDistinct ==
    outcome = "interrupted" =>
        /\ ExitStatus(outcome) # 0
        /\ ExitStatus(outcome) # ExitStatus("returned")
        /\ ExitStatus(outcome) # ExitStatus("crashed")

\* the filter the command was called with names patterns and an unknown mode
UnknownFilterMode ==
    \/ /\ cmd = "remove"
       /\ args.filter_patterns # None /\ args.filter_type \notin FilterTypes
    \/ /\ cmd = "update"
       /\ args.filter.filter_patterns # None /\ args.filter.filter_type \notin FilterTypes

\* C8: a fatal configuration error aborts before any mutation (no index
\* write, no import source saved, no folder deleted), and an unknown filter
\* mode always ends as a configuration error, never as "no link matches".
C8_ConfigErrorBeforeMutation ==
    /\ outcome \in {"config_error", "value_error"} =>
          writes = <<>> /\ sources = 0 /\ removed = {}
    /\ (pc = "done" /\ UnknownFilterMode) => outcome = "config_error"

\* C9: the pre-archiving index write precedes the first extractor call, the
\* second write follows the last link of the batch, and between the two the
\* index on disk is the complete index of the first write, whatever happens.
C9_TwoWritesBracketArchiving ==
    Archiving =>
        /\ Len(writes) <= 2
        /\ started # <<>> => Len(writes) >= 1
        /\ Len(writes) = 2 =>
              /\ returned = Timestamps(Batch)
              /\ mpos = 0
              /\ outcome = "returned"
        /\ Len(writes) = 1 => index = writes[1]

\* C9 witness: add crashed between the two writes, inside the second link;
\* the index on disk is the first write and is older than the folders
C9_Witness ==
    /\ cmd = "add" /\ outcome = "crashed"
    /\ Len(writes) = 1 /\ index = writes[1]
    /\ Len(returned) = 1 /\ mpos > 0
    /\ index # LoadMainIndex

DefaultFilter ==
    [filter_patterns |-> None, filter_type |-> "none", after |-> None, before |-> None]

\* C10: update hands the links its filters select to the archive loop: all
\* links of the index with the default arguments, the links list_links yields
\* when a filter is given.
C10_UpdateArchivesSelected ==
    (/\ cmd = "update" /\ pc = "done"
     /\ ~args.index_only /\ IsNone(args.resume)
     /\ outcome \notin {"interrupted", "crashed"}) =>
        /\ (args.status = "none" /\ args.filter = DefaultFilter) =>
              outcome = "returned" /\ returned = Timestamps(index0)
        /\ (args.status = "indexed" /\ outcome = "returned") =>
              returned = Timestamps(Selected(args.filter))

\* the condition under which a link is to be yielded, as the contract words it
Wanted(link, a) ==
    /\ (IsNone(a.after) \/ a.after[1] <= link.timestamp)
    /\ (IsNone(a.before) \/ link.timestamp <= a.before[1])
    /\ \/ a.filter_patterns = <<>>
       \/ \E i \in 1..Len(a.filter_patterns) :
             LinkMatchesFilter(link, <<a.filter_patterns[i]>>, a.filter_type)

\* C11: list_links yields a link of the index if and only if it is within the
\* after/before bounds (both inclusive) and, when patterns are given, matches
\* at least one of them; link_matches_filter is only ever called on links
\* within the bounds; the yielded links keep the order of the index. The
\* operator ListLinks that remove and update use yields the same sequence.
C11_ListLinksYieldsExactly ==
    (cmd = "list" /\ pc = "list_loop") =>
        LET seen == Prefix(index0, idx) IN
        /\ links = SelectSeqBy(seen, {i \in 1..Len(seen) : Wanted(seen[i], args)})
        /\ \A i \in 1..Len(probed) :
              /\ IsNone(args.after) \/ args.after[1] <= probed[i]
              /\ IsNone(args.before) \/ probed[i] <= args.before[1]
        /\ idx = Len(index0) =>
              links = ListLinks(index0, args.filter_patterns, args.filter_type,
                                args.after, args.before)

\* list_links ran to its end with a bound and patterns given; it yielded the
\* link whose timestamp is the bound itself, tested and passed over another
\* link, and left a link out of bounds untested by the patterns
C11_Witness ==
    /\ cmd = "list" /\ pc = "list_loop" /\ idx = Len(index0)
    /\ ~IsNone(args.after) /\ args.filter_patterns # <<>>
    /\ \E i \in 1..Len(links) : links[i].timestamp = args.after[1]
    /\ Len(probed) > Len(links)
    /\ Len(probed) < Len(index0)

UrlsOf(ls) == {Canon(ls[i].url) : i \in 1..Len(ls)}

\* add has merged the import it was given into the index it found
Merged == cmd = "add" /\ writes # <<>>

\* the import held only URLs that the index already had
Reimported == Merged /\ UrlsOf(args.import_path) \subseteq UrlsOf(index0)

\* C12: merging an import whose links are all in the index already (the empty
\* import, or the index itself) leaves every link record of the index as it
\* was and reports no newly added link.
C12_MergeIdempotent ==
    Reimported =>
        /\ all_links = index0
        /\ writes[1] = index0
        /\ new_links = <<>>

\* the sources of the incoming links with the canonical URL u, in import order
RECURSIVE IncomingSources(_, _)
IncomingSources(incoming, u) ==
    IF incoming = <<>> THEN <<>>
    ELSE (IF Canon(Head(incoming).url) = u THEN Head(incoming).sources ELSE <<>>)
         \o IncomingSources(Tail(incoming), u)

\* C12 as amended: such a merge reports no newly added link and keeps the
\* links of the index, their order, and each link's url, timestamp, history
\* and non-empty tags; the sources of a link named by the import are its old
\* sources followed by the incoming ones, so only the empty import leaves
\* every record unchanged.
C12_MergeIdempotentUpToSources ==
    Reimported =>
        /\ new_links = <<>>
        /\ writes[1] = all_links
        /\ Len(all_links) = Len(index0)
        /\ \A i \in 1..Len(index0) :
              LET old == index0[i]
                  now == all_links[i]
              IN /\ now.url = old.url
                 /\ now.timestamp = old.timestamp
                 /\ now.history = old.history
                 /\ old.tags # {} => now.tags = old.tags
                 /\ now.sources = old.sources \o IncomingSources(args.import_path,
                                                                 Canon(old.url))
        /\ args.import_path = <<>> => all_links = index0

\* the whole index, of two links or more, was imported again
C12_Witness ==
    /\ Merged
    /\ Len(index0) >= 2
    /\ Range(args.import_path) = Range(index0)

\* C13: after a merge no two links of the merged set have the same URL or the
\* same timestamp, and the merged set has no more links than the index and
\* the import together have distinct canonical URLs.
C13_MergedUnique ==
    Merged =>
        LET merged == writes[1] IN
        /\ \A i, j \in 1..Len(merged) :
              i # j => /\ Canon(merged[i].url) # Canon(merged[j].url)
                       /\ merged[i].timestamp # merged[j].timestamp
        /\ Len(merged) <= Cardinality(UrlsOf(index0) \cup UrlsOf(args.import_path))
        /\ merged = all_links

\* the import named a URL of the index in another spelling and a new URL
\* stamped with a time the index held: the new link's timestamp was moved
C13_Witness ==
    /\ Merged
    /\ \E i \in 1..Len(args.import_path) :
          /\ args.import_path[i].url \notin UrlsOf(index0)
          /\ Canon(args.import_path[i].url) \in UrlsOf(index0)
    /\ \E i \in 1..Len(args.import_path) :
          /\ Canon(args.import_path[i].url) \notin UrlsOf(index0)
          /\ \E j \in 1..Len(index0) : index0[j].timestamp = args.import_path[i].timestamp
          /\ \E n \in 1..Len(new_links) :
                /\ new_links[n].url = Canon(args.import_path[i].url)
                /\ new_links[n].timestamp > args.import_path[i].timestamp

\* the link of ls with the URL <<host>>, if there is exactly one
LinkOf(ls, host) ==
    LET hit == {i \in 1..Len(ls) : ls[i].url = <<host>>}
    IN IF Cardinality(hit) = 1 THEN Some(ls[CHOOSE i \in hit : TRUE]) ELSE None

\* C14: in the merge scenario the merged set has 3 links; a.com keeps
\* timestamp 100 and its sources are the original one and cli; b.com is as it
\* was; c.com has a timestamp greater than 200; the newly added links are
\* exactly c.com.
C14_MergeScenario ==
    Merged =>
        LET merged == writes[1] IN
        /\ Len(merged) = 3
        /\ LinkOf(merged, "a.com") # None
        /\ LinkOf(merged, "a.com")[1].timestamp = 100
        /\ LinkOf(merged, "a.com")[1].sources = <<"init", "cli">>
        /\ LinkOf(merged, "b.com") = Some(ScenarioLink("b.com", 200, "init"))
        /\ LinkOf(merged, "c.com") # None
        /\ LinkOf(merged, "c.com")[1].timestamp > 200
        /\ Len(new_links) = 1
        /\ new_links[1] = LinkOf(merged, "c.com")[1]

\* the import was stamped with the time b.com has, so c.com was moved past it
C14_Witness ==
    /\ Merged
    /\ \A i \in 1..Len(args.import_path) : args.import_path[i].timestamp = 200
    /\ LinkOf(index, "c.com") # None
    /\ LinkOf(index, "c.com")[1].timestamp = 201

\* folder n is in the folder set list_folders returns for the status, given
\* the links of the index
InState(n, status) == n \in NamesOf(ListFolders(index, status))

StatesOf(n) == {st \in FolderStatuses : InState(n, st)}

\* C16: every folder on disk is in exactly one of the ten states.
C16_ExactlyOneState ==
    \A n \in DOMAIN folders : Cardinality(StatesOf(n)) = 1

\* C16 as amended: the ten states are families that nest. Every folder on
\* disk is present and is either valid or invalid, never both; a folder named
\* after an index timestamp is indexed and either archived or unarchived,
\* never both, and no other folder is archived or unarchived; a valid folder
\* is indexed; an invalid folder that is not duplicate, orphaned or corrupted
\* is unrecognized; corrupted and unrecognized folders are invalid and in
\* none of the other three; so every folder is in two states or more.
C16_StatesNest ==
    \A n \in DOMAIN folders :
        /\ InState(n, "present")
        /\ InState(n, "valid") # InState(n, "invalid")
        /\ InState(n, "indexed") <=> (\E i \in 1..Len(index) : index[i].timestamp = n)
        /\ InState(n, "indexed") => (InState(n, "archived") # InState(n, "unarchived"))
        /\ ~InState(n, "indexed") => ~InState(n, "archived") /\ ~InState(n, "unarchived")
        /\ InState(n, "valid") => InState(n, "indexed")
        /\ InState(n, "unrecognized") <=>
              /\ InState(n, "invalid")
              /\ ~InState(n, "duplicate") /\ ~InState(n, "orphaned")
              /\ ~InState(n, "corrupted")
        /\ InState(n, "corrupted") =>
              /\ InState(n, "invalid")
              /\ ~InState(n, "duplicate") /\ ~InState(n, "orphaned")
        /\ Cardinality(StatesOf(n)) >= 2

\* info has counted the folders of a snapshot in which one folder is indexed,
\* archived, present and valid, and another is invalid, duplicate and orphaned
C16_Witness ==
    /\ cmd = "info" /\ pc = "done"
    /\ report.valid > 0 /\ report.archived > 0
    /\ \E n \in DOMAIN folders :
          {"indexed", "archived", "present", "valid"} \subseteq StatesOf(n)
    /\ \E n \in DOMAIN folders :
          {"invalid", "duplicate", "orphaned"} \subseteq StatesOf(n)

\* init has returned
Recovered == cmd = "init" /\ outcome = "returned"

\* the folder holds metadata for a URL that the index did not hold when the
\* command began
WasOrphaned(n) ==
    /\ folders[n].meta # None
    /\ Canon(folders[n].meta[1].url) \notin UrlsOf(index0)

\* C17: a folder that holds parseable metadata for a URL absent from the
\* index is orphaned; once init has run the URL is in the index and the
\* folder is classified valid and no longer orphaned.
C17_OrphanRecovered ==
    /\ cmd = "none" =>
          \A n \in DOMAIN folders : WasOrphaned(n) => InState(n, "orphaned")
    /\ Recovered =>
          \A n \in DOMAIN folders :
              WasOrphaned(n) =>
                  /\ Canon(folders[n].meta[1].url) \in UrlsOf(index)
                  /\ ~InState(n, "orphaned")
                  /\ InState(n, "valid")

\* C17 as amended: such a folder is orphaned; once init has run the URL is in
\* the index and the folder is no longer orphaned; it is valid when its name
\* is the timestamp of its metadata (init could rename it if it was not) and
\* no other folder holds metadata for the same URL.
C17_OrphanRecoveredWhenNamed ==
    /\ cmd = "none" =>
          \A n \in DOMAIN folders : WasOrphaned(n) => InState(n, "orphaned")
    /\ Recovered =>
          \A n \in DOMAIN folders :
              WasOrphaned(n) =>
                  /\ Canon(folders[n].meta[1].url) \in UrlsOf(index)
                  /\ ~InState(n, "orphaned")
                  /\ (n \notin cant_fix /\ ~InState(n, "duplicate")) => InState(n, "valid")

\* init took the links of two orphaned folders into the index: one that was
\* well named and one that it renamed; both are valid now
C17_Witness ==
    /\ Recovered
    /\ \E n, m \in DOMAIN folders :
          /\ WasOrphaned(n) /\ WasOrphaned(m)
          /\ n \in fixed /\ m \notin fixed
          /\ InState(n, "valid") /\ InState(m, "valid")

Mismatched(fs, n) == fs[n].meta # None /\ fs[n].meta[1].timestamp # n

\* one run of the self-healing step: every folder is still there, with its
\* content as it was, under its old name or under the timestamp of its
\* metadata; a folder stays where a folder of that name stood in the way
\* when its turn came, and is then reported; the index is not touched
Healed ==
    /\ Cardinality(DOMAIN folders') = Cardinality(DOMAIN folders)
    /\ \A n \in DOMAIN folders :
          IF ~Mismatched(folders, n)
          THEN n \in DOMAIN folders' /\ folders'[n] = folders[n]
          ELSE LET dest == folders[n].meta[1].timestamp IN
               \/ /\ n \in cant_fix'
                  /\ n \in DOMAIN folders' /\ folders'[n] = folders[n]
                  /\ dest \in (DOMAIN folders) \cup (DOMAIN folders')
               \/ /\ n \notin cant_fix'
                  /\ dest \in fixed'
                  /\ dest \in DOMAIN folders' /\ folders'[dest] = folders[n]
    /\ cant_fix' \subseteq {n \in DOMAIN folders : Mismatched(folders, n)}
    /\ \A n \in DOMAIN folders' : Mismatched(folders', n) => n \in cant_fix'
    /\ index' = index /\ sql_index' = sql_index

\* C19: the self-healing step of init corrects a wrongly named folder only
\* by renaming it to the timestamp of its metadata, the metadata unchanged;
\* when a folder of that name exists the folder is left as it is, nothing is
\* overwritten or merged, and the folder is reported in cant_fix.
C19_SelfHealingRenamesOnly ==
    [][(cmd = "init" /\ pc = "init_fix") => Healed]_vars

\* the step renamed one folder and left another whose destination was taken
C19_Witness ==
    /\ cmd = "init" /\ pc = "init_collect"
    /\ fixed # {}
    /\ cant_fix # {}

\* no two links of the sequence have the same canonical URL or timestamp
KeysUnique(ls) ==
    \A i, j \in 1..Len(ls) :
        i # j => /\ Canon(ls[i].url) # Canon(ls[j].url)
                 /\ ls[i].timestamp # ls[j].timestamp

\* C15: across any sequence of init, add, update and remove the index never
\* holds two links with the same URL or the same timestamp, and a URL that a
\* command finds in the index and leaves in it keeps its timestamp.
C15_IndexKeysUnique ==
    /\ KeysUnique(index)
    /\ \A i \in 1..Len(index0) : \A j \in 1..Len(index) :
          Canon(index0[i].url) = Canon(index[j].url)
              => index0[i].timestamp = index[j].timestamp

\* representation r holds the links of ls
Holds(r, ls) ==
    CASE r = "json" -> index = Render(r, ls)
      [] r = "sql"  -> sql_index = Render(r, ls)
      [] r = "html" -> html_index = Render(r, ls)

RepSet == Range(Representations)

\* a write of remove has begun, or has ended one way or the other
InWrite == cmd = "remove" /\ (pc = "remove_write" \/ writes # <<>> \/ outcome = "crashed")

\* C20: at every point of an index write, a failure or crash included, a
\* reader sees all representations with the old link set or all of them with
\* the new one.
C20_WriteAllOrNothing ==
    \/ \A r \in RepSet : Holds(r, index0)
    \/ InWrite /\ \A r \in RepSet : Holds(r, to_keep)

\* C20 as amended: at every point of a write each representation by itself
\* holds the whole old link set or the whole new one, never a partial file;
\* the representations change one after the other (structured index, then
\* relational, then HTML), so in between a reader can see an earlier one new
\* and a later one old; when the write has returned all hold the new set.
C20_WritePerRepresentation ==
    /\ \A r \in RepSet : Holds(r, index0) \/ (InWrite /\ Holds(r, to_keep))
    /\ \A i, j \in 1..Len(Representations) :
          (i < j /\ ~Holds(Representations[j], index0)) => Holds(Representations[i], to_keep)
    /\ (cmd = "remove" /\ outcome = "returned") => \A r \in RepSet : Holds(r, to_keep)
    /\ (cmd = "remove" /\ outcome = "returned") => staged = NoWrite

\* the write was killed after the structured index was renamed into place:
\* it holds the new set, the HTML index still the old one
C20_Witness ==
    /\ cmd = "remove" /\ outcome = "crashed"
    /\ to_keep # index0
    /\ Holds("json", to_keep)
    /\ Holds("html", index0)
    /\ to_keep # <<>>

\* the links a representation holds, each as its URL and timestamp
JsonKeys == {<<index[i].url, index[i].timestamp>> : i \in 1..Len(index)}
SqlKeys == {<<l.url, l.timestamp>> : l \in sql_index}
HtmlKeys == Range(html_index)

Descending(ls) == \A i \in 1..(Len(ls) - 1) : ls[i].timestamp >= ls[i + 1].timestamp

\* C22: the sequence of links every operation (init, add, update, remove)
\* hands to the index writer is ordered by timestamp descending, newest
\* first.
C22_WriterInputDescending ==
    \A i \in 1..Len(writes) : Descending(writes[i])

\* the folder names a step takes away
GoneFolders == (DOMAIN folders) \ (DOMAIN folders')

\* the number of folders of fs that hold exactly c
FolderCount(fs, c) == Cardinality({n \in DOMAIN fs : fs[n] = c})

\* every folder is on disk after the step as it was before, under its own
\* name or another
FoldersKept ==
    \A n \in DOMAIN folders :
        FolderCount(folders', folders[n]) >= FolderCount(folders, folders[n])

\* C23: a link folder is deleted only by remove called with delete=true, and
\* then only the folder of a link that remove takes out of the index; init,
\* add, update, list, info and remove with delete=false leave every folder
\* on disk, whatever its state (init may put a folder under the name its
\* metadata gives, and loses none).
C23_FoldersDeletedOnlyByRemove ==
    [][ IF cmd = "init"
        THEN FoldersKept
        ELSE \A n \in GoneFolders :
                /\ cmd = "remove" /\ args.delete
                /\ \E i \in 1..Len(LoadMainIndex) : LoadMainIndex[i].timestamp = n
                /\ \A j \in 1..Len(to_keep') : to_keep'[j].timestamp # n
      ]_vars

\* remove with delete=true has deleted the folder of the link it took out,
\* and a folder without metadata is still on disk
C23_Witness ==
    /\ cmd = "remove" /\ pc = "done" /\ args.delete
    /\ removed # {}
    /\ to_keep # <<>>
    /\ \E n \in DOMAIN folders : folders[n].meta = None

\* the link in hand has a successful output of method m on disk
HasOutput(m) ==
    /\ m \in folders[cur[1].timestamp].outputs
    /\ "succeeded" \in Range(cur[1].history[m])

\* archive_link moves from one extractor method to the next
MethodStep == pc = "archiving" /\ mpos \in 1..Len(Methods) /\ mpos' = mpos + 1

\* the command was called with overwrite=true
OverwriteGiven == cmd = "update" /\ args.overwrite

\* C24: with overwrite=false, the default of add and update, an extractor
\* method is not invoked for a link for which it already produced a
\* successful output that is still on disk; with overwrite=true it is
\* invoked again.
C24_OverwriteSkipsDone ==
    [][ MethodStep =>
          IF HasOutput(Methods[mpos]) /\ ~OverwriteGiven
          THEN calls' = calls
          ELSE /\ Len(calls') = Len(calls) + 1
               /\ calls'[Len(calls')][1] = cur[1].timestamp
               /\ calls'[Len(calls')][2] = Methods[mpos]
      ]_vars

\* an update without overwrite has gone through a link that held successful
\* outputs and has invoked no method on it, and has invoked one on another
C24_Witness ==
    /\ cmd = "update" /\ ~args.overwrite /\ pc = "done"
    /\ calls # <<>>
    /\ \E k \in 1..Len(returned) : \E j \in 1..Len(index0) :
          /\ index0[j].timestamp = returned[k]
          /\ index0[j].history = DoneHistory
          /\ \A i \in 1..Len(calls) : calls[i][1] # returned[k]

\* the names of the folders list_folders returns for a status
FolderNames(status) == NamesOf(ListFolders(LoadMainIndex, status))

InvalidSubstates ==
    FolderNames("duplicate") \cup FolderNames("orphaned") \cup
    FolderNames("corrupted") \cup FolderNames("unrecognized")

InfoDone == cmd = "info" /\ pc = "done"

RawUrlsOf(ls) == {ls[i].url : i \in 1..Len(ls)}

\* the sources init collects from
MainLinks == all_links
JsonLinks == ParseJsonMainIndex
SqlLinks == ParseSqlMainIndex
DirLinks == ParseJsonLinksDetails(folders)

SourceUrls == RawUrlsOf(MainLinks) \cup RawUrlsOf(JsonLinks) \cup RawUrlsOf(SqlLinks) \cup RawUrlsOf(DirLinks)

\* the first of the sources, in init's order, that holds the URL u
EarliestSource(u) ==
    IF u \in RawUrlsOf(MainLinks) THEN MainLinks
    ELSE IF u \in RawUrlsOf(JsonLinks) THEN JsonLinks
    ELSE IF u \in RawUrlsOf(SqlLinks) THEN SqlLinks
    ELSE DirLinks

\* C26: init builds the set it writes from the main index, the JSON index,
\* the relational index and the per-folder metadata files, in this order: a
\* URL collected from an earlier source keeps the record of that source, and
\* every URL of at least one source is exactly once in the index init writes.
C26_InitCollectsInOrder ==
    [][ (cmd = "init" /\ pc = "init_collect" /\ pc' = "done") =>
          /\ RawUrlsOf(index') = SourceUrls
          /\ \A i, j \in 1..Len(index') : index'[i].url = index'[j].url => i = j
          /\ \A i \in 1..Len(index') : index'[i] \in Range(EarliestSource(index'[i].url))
      ]_vars

\* init has written an index with a link it found only in the relational
\* index and a link it found only in a folder, next to a link of the main
\* index whose URL a folder holds with another record
C26_Witness ==
    /\ cmd = "init" /\ pc = "done" /\ ncmds = 1
    /\ \E l \in Range(index) : l \notin Range(index0) /\ l \in sql_index /\ l.url = UrlOf(1)
    /\ \E n \in DOMAIN folders :
          /\ folders[n].meta # None
          /\ folders[n].meta[1] \notin Range(index)
          /\ folders[n].meta[1].url \in UrlsOf(index0)
    /\ new_links # <<>>

\* the folder names of a result, in its order
NameSeq(pairs) == [i \in 1..Len(pairs) |-> pairs[i][1]]

\* list has ended and all_links holds the folder names it was given by
\* list_folders for the status st
Listed(st, pairs) == args.status = st => all_links = NameSeq(pairs)

\* C27: list_folders returns the folder set of the requested status for each
\* of the ten status names; for any other status value, an absent one
\* included, it raises an error and returns no result, empty or default.
C27_ListFoldersDispatch ==
    (cmd = "list" /\ pc = "done") =>
        IF args.status \in FolderStatuses
        THEN /\ outcome = (IF all_links = <<>> THEN "no_match" ELSE "returned")
             /\ Listed("indexed", GetIndexedFolders(links))
             /\ Listed("archived", GetArchivedFolders(links))
             /\ Listed("unarchived", GetUnarchivedFolders(links))
             /\ Listed("present", GetPresentFolders(links))
             /\ Listed("valid", GetValidFolders(links))
             /\ Listed("invalid", GetInvalidFolders(links))
             /\ Listed("duplicate", GetDuplicateFolders(links))
             /\ Listed("orphaned", GetOrphanedFolders(links))
             /\ Listed("corrupted", GetCorruptedFolders(links))
             /\ Listed("unrecognized", GetUnrecognizedFolders(links))
        ELSE /\ outcome = "value_error"
             /\ all_links = <<>>

\* list called without a status has ended with the error on a snapshot that
\* has indexed folders to return
C27_Witness ==
    /\ cmd = "list" /\ pc = "done"
    /\ args.status = "none"
    /\ outcome = "value_error"
    /\ GetIndexedFolders(links) # <<>>
    /\ GetInvalidFolders(links) # <<>>

\* add or update was called with index_only=true
IndexOnly == cmd \in {"add", "update"} /\ args.index_only

\* no link of the index has another history than the index of before held
\* for its URL
HistoryUntouched ==
    \A i \in 1..Len(index) : \A j \in 1..Len(index0) :
        index[i].url = index0[j].url => index[i].history = index0[j].history

\* C28: add and update called with index_only=true invoke no extractor on
\* any link and perform exactly one index write, the one before archiving;
\* the finished write is not made and no link's history changes.
C28_IndexOnlyOneWrite ==
    IndexOnly =>
        /\ started = <<>> /\ calls = <<>>
        /\ Len(writes) <= 1
        /\ pc = "done" => Len(writes) = 1
        /\ HistoryUntouched

\* add has rejected its arguments
AddRejected == cmd = "add" /\ outcome = "config_error"

\* C28 as amended: add and update called with index_only=true invoke no
\* extractor on any link and perform at most one index write, the one before
\* archiving: exactly one when the command has ended, except that add exits
\* before any write when it rejects its arguments; the finished write is not
\* made and no link's history changes.
C28_IndexOnlyAtMostOneWrite ==
    IndexOnly =>
        /\ started = <<>> /\ calls = <<>>
        /\ Len(writes) <= 1
        /\ pc = "done" => Len(writes) = (IF AddRejected THEN 0 ELSE 1)
        /\ HistoryUntouched

\* an update with index_only=true has returned after its one write, with a
\* selected link in the index that no extractor has ever run on
C28_Witness ==
    /\ IndexOnly /\ cmd = "update" /\ outcome = "returned"
    /\ Len(writes) = 1
    /\ \E i \in 1..Len(all_links) : all_links[i].history = EmptyHistory

\* the directory holds an entry outside the allowed set and no index file
ForeignNoIndex ==
    /\ outdir.foreign \/ "config" \in outdir.made
    /\ "index" \notin outdir.made

\* C29: init run on a directory that holds entries outside the allowed set
\* and no index file exits with status 1 and leaves the directory as it was:
\* no folder, config file, relational index or index file is made.
C29_InitRefusesForeignDir ==
    [][ (cmd = "none" /\ cmd' = "init" /\ ForeignNoIndex) =>
          /\ pc' = "done"
          /\ ExitStatus(outcome') = 1
          /\ outdir' = outdir
          /\ UNCHANGED <<index, sql_index, html_index, folders, sources, staged, writes>>
      ]_vars

\* init has refused a directory that held nothing init makes
C29_Witness ==
    /\ cmd = "init" /\ pc = "done"
    /\ outcome = "not_empty"
    /\ outdir = [made |-> {}, foreign |-> TRUE]

\* the (schedule, command) pairs of the jobs of a crontab
JobPairs(jobs) == {<<jobs[i].slices, jobs[i].command>> : i \in 1..Len(jobs)}

\* the jobs of a crontab that schedule did not make
ForeignIn(jobs) == {j \in Range(jobs) : j.comment # CRON_COMMENT}

\* job j is in the crontab with its command, schedule and comment
KeptIn(jobs, j) ==
    \E k \in Range(jobs) :
        k.command = j.command /\ k.slices = j.slices /\ k.comment = j.comment

\* C30: dedupe_jobs keeps exactly one job per distinct (schedule, command)
\* pair, is idempotent, and leaves every job of the user that ArchiveBox did
\* not make unchanged in command, schedule and comment, so that schedule with
\* clear removes the ArchiveBox jobs only.
C30_DedupeKeepsForeignJobs ==
    cmd = "schedule" =>
        /\ JobPairs(cron.deduped) = JobPairs(cron.before)
        /\ Len(cron.deduped) = Cardinality(JobPairs(cron.before))
        /\ \A q \in DedupeJobs(cron.deduped) :
              Range(q) = Range(cron.deduped) /\ Len(q) = Len(cron.deduped)
        /\ \A j \in ForeignIn(cron.before) : KeptIn(cron.deduped, j)
        /\ (pc = "done" /\ ~args.run_all /\ ~args.show /\ args.clear) =>
              \A j \in ForeignIn(cron.before) : KeptIn(cron.tab, j)

====
